---- MODULE Spec2Model ----
(***************************************************************************)
(* Matching algorithms of src/misc/matching.c: the matching validators,    *)
(* the bipartite push-relabel matcher, the Hungarian (weighted bipartite)  *)
(* matcher and the general-graph search.                                   *)
(*                                                                         *)
(* Vectors indexed by vertex are functions on 0..n-1, as in the C code;    *)
(* queues and growing vectors are sequences.  A pointer argument that may  *)
(* be null is a record [null, v].                                          *)
(***************************************************************************)
EXTENDS Integers, Sequences, FiniteSets, TLC

\* Bounds of the inputs that are enumerated.
MaxN == 4
MaxE == 3
MaxW == 2
MaxVN == 2
MaxVE == 2
MaxSteps == 40
MaxUnites == 3

VARIABLES
    graph, types, weights, eps,          \* arguments
    matching, matching_size, matching_weight,   \* caller's output arguments
    pc, retval, result,                  \* position, error code, *result of the validators
    match, labels, q, num_matched, smaller_set, label_changed,
    slack, parent, vec1, vec2, msize, dual, tight_phantom_edges,
    alternating_path_endpoint,
    even_level, odd_level, bridges, predecessors, anomalies,
    level_i_queue, next_level_i_queue, cur_i, has_vertices,
    bloss_aug_calls,                     \* the pairs handed to bloss_aug so far
    element_count, nodes,                \* the disjoint set T
    last_call, find_result, united,      \* calls made on T and the last result
    w1, w2, vl, vr, dcv, barrier, left, right, father,   \* bloss_aug
    pathFound, blossomFound, erased,
    erased_nodes, blossom, unused_ancestors

args == <<graph, types, weights, eps>>
outs == <<matching, matching_size, matching_weight>>
uw_locals == <<match, labels, q, num_matched, smaller_set, label_changed>>
w_locals == <<slack, parent, vec1, vec2, msize, dual, tight_phantom_edges,
              alternating_path_endpoint>>
g_locals == <<even_level, odd_level, bridges, predecessors, anomalies,
              level_i_queue, next_level_i_queue, cur_i, has_vertices,
              bloss_aug_calls>>
d_locals == <<element_count, nodes, last_call, find_result, united>>
b_locals == <<w1, w2, vl, vr, dcv, barrier, left, right, father,
              pathFound, blossomFound, erased, erased_nodes, blossom, unused_ancestors>>
vars == <<args, outs, pc, retval, result, uw_locals, w_locals, g_locals, d_locals,
          b_locals>>

NULL == [null |-> TRUE, v |-> <<>>]
Ref(x) == [null |-> FALSE, v |-> x]

Max2(a, b) == IF a >= b THEN a ELSE b
Min2(a, b) == IF a <= b THEN a ELSE b

RECURSIVE SortedSeq(_)
\* the elements of a finite set of integers, ascending
SortedSeq(S) ==
    IF S = {} THEN <<>>
    ELSE LET x == CHOOSE x \in S : \A y \in S : x <= y
         IN <<x>> \o SortedSeq(S \ {x})

Last(s) == s[Len(s)]

(***************************************************************************)
(* The graph collaborator (igraph_t and its accessors).                    *)
(***************************************************************************)
igraph_vcount(g) == g.n
igraph_ecount(g) == Len(g.edges)
\* endpoints of the edge with id e (ids start at 0)
igraph_edge(g, e) == g.edges[e + 1]
IGRAPH_OTHER(g, e, v) ==
    IF igraph_edge(g, e)[1] = v THEN igraph_edge(g, e)[2] ELSE igraph_edge(g, e)[1]

\* is there an edge from u to v (in either direction when undirected)
igraph_are_connected(g, u, v) ==
    \E e \in 0..(igraph_ecount(g) - 1) :
        \/ igraph_edge(g, e) = <<u, v>>
        \/ (~g.directed /\ igraph_edge(g, e) = <<v, u>>)

\* Incident edge ids of v, mode ALL, loops twice: ordered by the other
\* endpoint, then by edge id.
igraph_inclist_get(g, v) ==
    LET m == igraph_ecount(g)
        keys == { (IGRAPH_OTHER(g, e, v) * m + e) * 2 + c : e \in
                    { e \in 0..(m - 1) : v \in {igraph_edge(g, e)[1], igraph_edge(g, e)[2]} },
                  c \in 0..1 }
        real == { k \in keys : (k % 2 = 1) =>
                    LET e == (k \div 2) % m
                    IN igraph_edge(g, e)[1] = igraph_edge(g, e)[2] }
        s == SortedSeq(real)
    IN [x \in 1..Len(s) |-> (s[x] \div 2) % m]

\* Neighbours of v, mode ALL: ascending, one entry per incident edge end.
igraph_neighbors(g, v) ==
    LET inc == igraph_inclist_get(g, v)
    IN [x \in 1..Len(inc) |-> IGRAPH_OTHER(g, inc[x], v)]

igraph_vector_size(vec) == Cardinality(DOMAIN vec)

(***************************************************************************)
(* igraph_is_matching                                                      *)
(***************************************************************************)
RECURSIVE is_matching_pairs_one_direction(_, _, _)
\* is_matching_pairs without the second igraph_are_connected(j, i) query
is_matching_pairs_one_direction(g, mt, i) ==
    IF i >= igraph_vcount(g) THEN TRUE
    ELSE LET j == mt[i] IN
         IF j < -1 \/ j >= igraph_vcount(g) THEN FALSE
         ELSE IF j = -1 THEN is_matching_pairs_one_direction(g, mt, i + 1)
         ELSE IF mt[j] # i THEN FALSE
         ELSE IF ~igraph_are_connected(g, i, j) THEN FALSE
         ELSE is_matching_pairs_one_direction(g, mt, i + 1)

RECURSIVE is_matching_pairs(_, _, _)
\* the first loop: range, mutuality and connectedness; FALSE on an early return
is_matching_pairs(g, mt, i) ==
    IF i >= igraph_vcount(g) THEN TRUE
    ELSE LET j == mt[i] IN
         IF j < -1 \/ j >= igraph_vcount(g) THEN FALSE
         ELSE IF j = -1 THEN is_matching_pairs(g, mt, i + 1)
         ELSE IF mt[j] # i THEN FALSE
         ELSE IF ~igraph_are_connected(g, i, j) /\ ~igraph_are_connected(g, j, i)
              THEN FALSE
         ELSE is_matching_pairs(g, mt, i + 1)

RECURSIVE is_matching_types(_, _, _, _)
\* the second loop: matched vertices must be of different types
is_matching_types(g, tp, mt, i) ==
    IF i >= igraph_vcount(g) THEN TRUE
    ELSE LET j == mt[i] IN
         IF j = -1 THEN is_matching_types(g, tp, mt, i + 1)
         ELSE IF tp[i] = tp[j] THEN FALSE
         ELSE is_matching_types(g, tp, mt, i + 1)

\* *result of igraph_is_matching (the call always returns IGRAPH_SUCCESS)
igraph_is_matching(g, tp, mt) ==
    IF igraph_vector_size(mt) # igraph_vcount(g) THEN FALSE
    ELSE IF ~is_matching_pairs(g, mt, 0) THEN FALSE
    ELSE IF ~tp.null THEN is_matching_types(g, tp.v, mt, 0)
    ELSE TRUE

(***************************************************************************)
(* igraph_is_maximal_matching                                              *)
(***************************************************************************)
RECURSIVE is_maximal_neis(_, _, _, _, _)
\* the inner loop over the neighbours of the unmatched vertex i: TRUE when
\* it sets valid = 0
is_maximal_neis(tp, mt, neis, i, j) ==
    IF j >= Len(neis) THEN FALSE
    ELSE IF mt[neis[j + 1]] = -1 /\ (tp.null \/ tp.v[i] # tp.v[neis[j + 1]])
         THEN TRUE
    ELSE is_maximal_neis(tp, mt, neis, i, j + 1)

RECURSIVE is_maximal_loop(_, _, _, _, _)
\* the outer loop; valid is carried through
is_maximal_loop(g, tp, mt, i, valid) ==
    IF i >= igraph_vcount(g) THEN valid
    ELSE IF mt[i] # -1 THEN is_maximal_loop(g, tp, mt, i + 1, valid)
    ELSE is_maximal_loop(g, tp, mt, i + 1,
            IF is_maximal_neis(tp, mt, igraph_neighbors(g, i), i, 0)
            THEN FALSE ELSE valid)

igraph_is_maximal_matching(g, tp, mt) ==
    IF ~igraph_is_matching(g, tp, mt) THEN FALSE
    ELSE is_maximal_loop(g, tp, mt, 0, TRUE)

(***************************************************************************)
(* igraph_i_maximum_bipartite_matching_unweighted: push-relabel            *)
(***************************************************************************)
RECURSIVE greedy_neis(_, _, _, _, _, _)
\* step (3), the loop over the neighbours of the unmatched vertex i; the
\* loop variable is the j that also counts the vertices of type true
greedy_neis(tp, neis, i, j, mt, nm) ==
    IF j >= Len(neis)
    THEN [err |-> FALSE, match |-> mt, num_matched |-> nm, j |-> j]
    ELSE LET k == neis[j + 1] IN
         IF tp[k] = tp[i]
         THEN [err |-> TRUE, match |-> mt, num_matched |-> nm, j |-> j]
         ELSE IF mt[k] = -1
         THEN [err |-> FALSE, match |-> [mt EXCEPT ![k] = i, ![i] = k],
               num_matched |-> nm + 1, j |-> j]
         ELSE greedy_neis(tp, neis, i, j + 1, mt, nm)

RECURSIVE greedy_loop(_, _, _, _)
\* step (3), the loop over the vertices
greedy_loop(g, tp, i, st) ==
    IF i >= igraph_vcount(g) THEN st
    ELSE LET j1 == IF tp[i] THEN st.j + 1 ELSE st.j IN
         IF st.match[i] # -1
         THEN greedy_loop(g, tp, i + 1, [st EXCEPT !.j = j1])
         ELSE LET r == greedy_neis(tp, igraph_neighbors(g, i), i, 0,
                                   st.match, st.num_matched)
              IN IF r.err THEN r ELSE greedy_loop(g, tp, i + 1, r)

\* steps (2) and (3): [err, match, num_matched, j]
unweighted_greedy(g, tp) ==
    greedy_loop(g, tp, 0,
        [err |-> FALSE, match |-> [v \in 0..(igraph_vcount(g) - 1) |-> -1],
         num_matched |-> 0, j |-> 0])

RECURSIVE relabel_roots(_, _, _, _, _)
\* the unmatched vertices of the larger set get label 0 and enter the FIFO
relabel_roots(g, tp, mt, ss, i) ==
    IF i >= igraph_vcount(g)
    THEN [labels |-> [v \in 0..(igraph_vcount(g) - 1) |-> igraph_vcount(g)], q |-> <<>>]
    ELSE LET r == relabel_roots(g, tp, mt, ss, i + 1) IN
         IF tp[i] # ss /\ mt[i] = -1
         THEN [labels |-> [r.labels EXCEPT ![i] = 0], q |-> <<i>> \o r.q]
         ELSE r

RECURSIVE relabel_neis(_, _, _, _, _, _)
\* the loop over the neighbours of the popped vertex v
relabel_neis(n, mt, neis, v, j, st) ==
    IF j >= Len(neis) THEN st
    ELSE LET w == neis[j + 1] IN
         IF st.labels[w] = n
         THEN LET l1 == [st.labels EXCEPT ![w] = st.labels[v] + 1]
                  matched_to == mt[w]
              IN IF matched_to # -1 /\ l1[matched_to] = n
                 THEN relabel_neis(n, mt, neis, v, j + 1,
                        [labels |-> [l1 EXCEPT ![matched_to] = l1[w] + 1],
                         q |-> Append(st.q, matched_to)])
                 ELSE relabel_neis(n, mt, neis, v, j + 1, [st EXCEPT !.labels = l1])
         ELSE relabel_neis(n, mt, neis, v, j + 1, st)

RECURSIVE relabel_bfs(_, _, _)
relabel_bfs(g, mt, st) ==
    IF st.q = <<>> THEN st.labels
    ELSE LET v == Head(st.q) IN
         relabel_bfs(g, mt,
             relabel_neis(igraph_vcount(g), mt, igraph_neighbors(g, v), v, 0,
                          [st EXCEPT !.q = Tail(st.q)]))

\* igraph_i_maximum_bipartite_matching_unweighted_relabel: the new labels
unweighted_relabel(g, tp, mt, ss) ==
    relabel_bfs(g, mt, relabel_roots(g, tp, mt, ss, 0))

RECURSIVE unmatched_of_type(_, _, _, _, _)
\* step (5): the unmatched vertices of type ss, ascending
unmatched_of_type(g, tp, mt, ss, i) ==
    IF i >= igraph_vcount(g) THEN <<>>
    ELSE (IF mt[i] = -1 /\ tp[i] = ss THEN <<i>> ELSE <<>>)
         \o unmatched_of_type(g, tp, mt, ss, i + 1)

RECURSIVE min_label_neighbor(_, _, _, _)
\* line 5 of the report: the neighbour u of smallest label; every improvement
\* counts in label_changed
min_label_neighbor(lb, neis, i, st) ==
    IF i >= Len(neis) THEN st
    ELSE IF lb[neis[i + 1]] < st.label_u
         THEN min_label_neighbor(lb, neis, i + 1,
                [u |-> neis[i + 1], label_u |-> lb[neis[i + 1]],
                 label_changed |-> st.label_changed + 1])
         ELSE min_label_neighbor(lb, neis, i + 1, st)

\* lines 408-414: the global relabelling once label_changed has reached
\* relabeling_freq
push_relabel(g, tp, ss, st) ==
    IF st.label_changed >= igraph_vcount(g) \div 2
    THEN [st EXCEPT !.labels = unweighted_relabel(g, tp, st.match, ss), !.label_changed = 0]
    ELSE st

\* push_match without line 10 of the report: the vertex w that loses its
\* partner is not pushed back into the FIFO
push_match_no_reactivate(v, u, w, st) ==
    IF w # -1 /\ w # v
    THEN [st EXCEPT !.match = [st.match EXCEPT ![w] = -1, ![u] = v, ![v] = u],
                    !.labels = [st.labels EXCEPT ![u] = st.labels[u] + 2]]
    ELSE [st EXCEPT !.match = [st.match EXCEPT ![u] = v, ![v] = u],
                    !.num_matched = st.num_matched + 1,
                    !.labels = [st.labels EXCEPT ![u] = st.labels[u] + 2]]

\* push_match in which the former partner w of u keeps its match entry
push_match_keep_partner(v, u, w, st) ==
    IF w # -1 /\ w # v
    THEN [st EXCEPT !.match = [st.match EXCEPT ![u] = v, ![v] = u],
                    !.q = Append(st.q, w),
                    !.labels = [st.labels EXCEPT ![u] = st.labels[u] + 2]]
    ELSE [st EXCEPT !.match = [st.match EXCEPT ![u] = v, ![v] = u],
                    !.num_matched = st.num_matched + 1,
                    !.labels = [st.labels EXCEPT ![u] = st.labels[u] + 2]]

\* push_match without the num_matched-- of a double push
push_match_no_decrement(v, u, w, st) ==
    IF w # -1 /\ w # v
    THEN [st EXCEPT !.match = [st.match EXCEPT ![w] = -1, ![u] = v, ![v] = u],
                    !.q = Append(st.q, w),
                    !.num_matched = st.num_matched + 1,
                    !.labels = [st.labels EXCEPT ![u] = st.labels[u] + 2]]
    ELSE [st EXCEPT !.match = [st.match EXCEPT ![u] = v, ![v] = u],
                    !.num_matched = st.num_matched + 1,
                    !.labels = [st.labels EXCEPT ![u] = st.labels[u] + 2]]

\* lines 435-448: v takes u; a former partner w of u goes back to the FIFO
\* (double push)
push_match(v, u, w, st) ==
    IF w # -1 /\ w # v
    THEN [st EXCEPT !.match = [st.match EXCEPT ![w] = -1, ![u] = v, ![v] = u],
                    !.q = Append(st.q, w),
                    !.labels = [st.labels EXCEPT ![u] = st.labels[u] + 2]]
    ELSE [st EXCEPT !.match = [st.match EXCEPT ![u] = v, ![v] = u],
                    !.num_matched = st.num_matched + 1,
                    !.labels = [st.labels EXCEPT ![u] = st.labels[u] + 2]]

\* push_apply in which a vertex without admissible edge goes back to the FIFO
push_apply_requeue(g, v, best, st) ==
    IF best.label_u < igraph_vcount(g)
    THEN push_match(v, best.u, st.match[best.u],
            [st EXCEPT !.labels = [st.labels EXCEPT ![v] = st.labels[best.u] + 1],
                       !.label_changed = best.label_changed + 1])
    ELSE [st EXCEPT !.label_changed = best.label_changed, !.q = Append(st.q, v)]

\* lines 430-450: the push along the admissible edge (v, best.u), when there
\* is one
push_apply(g, v, best, st) ==
    IF best.label_u < igraph_vcount(g)
    THEN push_match(v, best.u, st.match[best.u],
            [st EXCEPT !.labels = [st.labels EXCEPT ![v] = st.labels[best.u] + 1],
                       !.label_changed = best.label_changed + 1])
    ELSE [st EXCEPT !.label_changed = best.label_changed]

\* lines 416-428: v leaves the FIFO and its neighbours are scanned
push_scan(g, v, st) ==
    push_apply(g, v,
        min_label_neighbor(st.labels, igraph_neighbors(g, v), 0,
            [u |-> -1, label_u |-> 2 * igraph_vcount(g), label_changed |-> st.label_changed]),
        [st EXCEPT !.q = Tail(st.q)])

\* one iteration of the main loop (6) on [match, labels, q, num_matched,
\* label_changed]
unweighted_push(g, tp, ss, st) ==
    push_scan(g, Head(st.q), push_relabel(g, tp, ss, st))

\* smaller_set as line 391 computes it from the j left by step (3)
smaller_set_of(g, j) == j <= igraph_vcount(g) \div 2

\* steps (4) and (5) and the reset of label_changed before the main loop
unweighted_start(g, tp, gr) ==
    LET ss == smaller_set_of(g, gr.j) IN
    [match |-> gr.match,
     labels |-> unweighted_relabel(g, tp, gr.match, ss),
     q |-> unmatched_of_type(g, tp, gr.match, ss, 0),
     num_matched |-> gr.num_matched,
     label_changed |-> 0]

RECURSIVE unweighted_main_loop(_, _, _, _, _)
\* the main loop run to its end; hang when it is still running after
\* MaxSteps iterations
unweighted_main_loop(g, tp, ss, st, fuel) ==
    IF st.q = <<>> THEN [hang |-> FALSE, match |-> st.match, num_matched |-> st.num_matched]
    ELSE IF fuel = 0 THEN [hang |-> TRUE, match |-> st.match, num_matched |-> st.num_matched]
    ELSE unweighted_main_loop(g, tp, ss, unweighted_push(g, tp, ss, st), fuel - 1)

\* igraph_maximum_bipartite_matching without weights, as the weighted matcher
\* calls it: [err, hang, match, num_matched]
unweighted_matching(g, tp) ==
    LET gr == unweighted_greedy(g, tp) IN
    IF gr.err
    THEN [err |-> TRUE, hang |-> FALSE, match |-> gr.match, num_matched |-> gr.num_matched]
    ELSE LET r == unweighted_main_loop(g, tp, smaller_set_of(g, gr.j),
                                       unweighted_start(g, tp, gr), MaxSteps)
         IN [err |-> FALSE, hang |-> r.hang, match |-> r.match,
             num_matched |-> r.num_matched]

(***************************************************************************)
(* igraph_i_maximum_bipartite_matching_weighted: Hungarian algorithm       *)
(***************************************************************************)
IGRAPH_INFINITY == 1000000

RECURSIVE count_type0(_, _, _)
\* step (2): the j that counts the vertices of type 0
count_type0(g, tp, i) ==
    IF i >= igraph_vcount(g) THEN 0
    ELSE (IF tp[i] = FALSE THEN 1 ELSE 0) + count_type0(g, tp, i + 1)

smaller_set_type(g, tp) == count_type0(g, tp, 0) > igraph_vcount(g) \div 2

smaller_set_size(g, tp) ==
    IF smaller_set_type(g, tp)
    THEN igraph_vcount(g) - count_type0(g, tp, 0)
    ELSE count_type0(g, tp, 0)

RECURSIVE vertices_of_type(_, _, _, _)
vertices_of_type(g, tp, t, i) ==
    IF i >= igraph_vcount(g) THEN <<>>
    ELSE (IF tp[i] = t THEN <<i>> ELSE <<>>) \o vertices_of_type(g, tp, t, i + 1)

\* the vertex ids of the smaller and of the larger set, ascending
smaller_set_ids(g, tp) == vertices_of_type(g, tp, smaller_set_type(g, tp), 0)
larger_set_ids(g, tp) == vertices_of_type(g, tp, ~smaller_set_type(g, tp), 0)

RECURSIVE max_incident_weight(_, _, _, _, _, _, _)
\* step (3), inner loop over the incident edges of the smaller-set vertex i:
\* -1 when an edge joins i to a vertex of its own type, else max_weight
max_incident_weight(g, tp, wt, neis, i, j, max_weight) ==
    IF j >= Len(neis) THEN max_weight
    ELSE LET k == neis[j + 1]
             u == IGRAPH_OTHER(g, k, i)
         IN IF tp[u] = tp[i] THEN -1
            ELSE max_incident_weight(g, tp, wt, neis, i, j + 1,
                    IF wt[k] > max_weight THEN wt[k] ELSE max_weight)

RECURSIVE initial_labels(_, _, _, _, _)
\* step (3), outer loop: [err, labels, dual]; st carries labels and dual
initial_labels(g, tp, wt, i, st) ==
    IF i >= igraph_vcount(g) THEN st
    ELSE IF tp[i] # smaller_set_type(g, tp)
    THEN initial_labels(g, tp, wt, i + 1, [st EXCEPT !.labels[i] = 0])
    ELSE LET mw == max_incident_weight(g, tp, wt, igraph_inclist_get(g, i), i, 0, 0)
         IN IF mw = -1 THEN [st EXCEPT !.err = TRUE]
            ELSE initial_labels(g, tp, wt, i + 1,
                    [st EXCEPT !.labels[i] = mw, !.dual = st.dual + mw])

\* slack of every edge from the labels (lines 652-660)
initial_slack(g, wt, lb) ==
    [e \in 0..(igraph_ecount(g) - 1) |->
        lb[igraph_edge(g, e)[1]] + lb[igraph_edge(g, e)[2]] - wt[e]]

IS_TIGHT(sl, e, ep) == sl[e] <= ep

RECURSIVE tight_edge_list(_, _, _, _)
\* vec1 after the loop at lines 652-660, as the edge list of newgraph
tight_edge_list(g, sl, ep, e) ==
    IF e >= igraph_ecount(g) THEN <<>>
    ELSE (IF IS_TIGHT(sl, e, ep) THEN <<igraph_edge(g, e)>> ELSE <<>>)
         \o tight_edge_list(g, sl, ep, e + 1)

\* step (4): the temporary graph of the tight edges
tight_subgraph(g, sl, ep) ==
    [n |-> igraph_vcount(g), directed |-> FALSE, edges |-> tight_edge_list(g, sl, ep, 0)]

RECURSIVE bfs_roots(_, _, _)
\* step (7): the unmatched vertices of the smaller set start the BFS
bfs_roots(ids, mt, st) ==
    IF ids = <<>> THEN st
    ELSE LET i == Head(ids) IN
         IF mt[i] = -1
         THEN bfs_roots(Tail(ids), mt,
                [q |-> Append(st.q, i), parent |-> [st.parent EXCEPT ![i] = i],
                 vec1 |-> Append(st.vec1, i), vec2 |-> st.vec2])
         ELSE bfs_roots(Tail(ids), mt, st)

\* the vertex u was reached from v: lines 736-750 and 770-784; st holds q,
\* parent, vec1, vec2, endpoint and stop (the break)
bfs_reach(mt, v, u, st) ==
    LET w == mt[u] IN
    IF w = -1
    THEN [st EXCEPT !.parent[u] = v, !.vec2 = Append(st.vec2, u),
                    !.endpoint = u, !.stop = TRUE]
    ELSE [st EXCEPT !.parent = [st.parent EXCEPT ![u] = v, ![w] = u],
                    !.vec2 = Append(st.vec2, u),
                    !.q = Append(st.q, w),
                    !.vec1 = Append(st.vec1, w)]

RECURSIVE bfs_real_edges(_, _, _, _, _, _, _, _)
\* the loop over the real edges incident on v (lines 724-751)
bfs_real_edges(g, mt, sl, ep, neis, v, i, st) ==
    IF i >= Len(neis) \/ st.stop THEN st
    ELSE LET j == neis[i + 1]
             u == IGRAPH_OTHER(g, j, v)
         IN IF ~IS_TIGHT(sl, j, ep) THEN bfs_real_edges(g, mt, sl, ep, neis, v, i + 1, st)
            ELSE IF st.parent[u] >= 0 THEN bfs_real_edges(g, mt, sl, ep, neis, v, i + 1, st)
            ELSE bfs_real_edges(g, mt, sl, ep, neis, v, i + 1, bfs_reach(mt, v, u, st))

Abs(x) == IF x < 0 THEN -x ELSE x

RECURSIVE bfs_phantom_edges(_, _, _, _, _, _, _)
\* the loop over the tight phantom edges of v (lines 756-785)
bfs_phantom_edges(mt, lb, ep, neis2, v, i, st) ==
    IF i >= Len(neis2) \/ st.stop THEN st
    ELSE LET u == neis2[i + 1]
         IN IF st.parent[u] >= 0 THEN bfs_phantom_edges(mt, lb, ep, neis2, v, i + 1, st)
            ELSE IF Abs(lb[v] + lb[u]) > ep
                 THEN bfs_phantom_edges(mt, lb, ep, neis2, v, i + 1, st)
            ELSE bfs_phantom_edges(mt, lb, ep, neis2, v, i + 1, bfs_reach(mt, v, u, st))

\* one iteration of the BFS loop (8): pop v, scan its real edges, then its
\* tight phantom edges; each scan has its own break
weighted_bfs_pop(g, mt, sl, lb, ep, tpe, st) ==
    LET v == Head(st.q)
        s0 == [q |-> Tail(st.q), parent |-> st.parent, vec1 |-> st.vec1,
               vec2 |-> st.vec2, endpoint |-> st.endpoint, stop |-> FALSE]
        s1 == bfs_real_edges(g, mt, sl, ep, igraph_inclist_get(g, v), v, 0, s0)
        s2 == bfs_phantom_edges(mt, lb, ep, SortedSeq(tpe[v]), v, 0,
                                [s1 EXCEPT !.stop = FALSE])
    IN s2

RECURSIVE augment_path(_, _, _, _)
\* the loop at lines 799-815 that flips the path ending in v, with u = parent[v]
augment_path(pr, mt, v, u) ==
    IF u = v THEN mt
    ELSE LET wv == mt[v]
             m1 == IF wv # -1 THEN [mt EXCEPT ![wv] = -1] ELSE mt
             m2 == [m1 EXCEPT ![v] = u]
             wu == m2[u]
             m3 == IF wu # -1 THEN [m2 EXCEPT ![wu] = -1] ELSE m2
             m4 == [m3 EXCEPT ![u] = v]
             v1 == pr[u]
         IN augment_path(pr, m4, v1, pr[v1])

RECURSIVE min_label(_, _, _, _)
\* smallest label over the listed vertices, starting from m (lines 849-855)
min_label(ids, lb, x, m) ==
    IF x >= Len(ids) THEN m
    ELSE min_label(ids, lb, x + 1, IF lb[ids[x + 1]] < m THEN lb[ids[x + 1]] ELSE m)

RECURSIVE min_reached_label(_, _, _, _, _)
\* smallest label over the reached vertices of vec1 (lines 857-868)
min_reached_label(v1, pr, lb, x, m) ==
    IF x >= Len(v1) THEN m
    ELSE LET u == v1[x + 1] IN
         IF pr[u] < 0 THEN min_reached_label(v1, pr, lb, x + 1, m)
         ELSE min_reached_label(v1, pr, lb, x + 1, IF lb[u] < m THEN lb[u] ELSE m)

RECURSIVE min_edge_slack(_, _, _, _, _, _, _)
\* lines 884-903: the real edges from u to vertices that were not reached
min_edge_slack(g, pr, sl, neis, u, j, m) ==
    IF j >= Len(neis) THEN m
    ELSE LET e == neis[j + 1]
             v == IGRAPH_OTHER(g, e, u)
         IN IF pr[v] >= 0 THEN min_edge_slack(g, pr, sl, neis, u, j + 1, m)
            ELSE min_edge_slack(g, pr, sl, neis, u, j + 1, IF sl[e] < m THEN sl[e] ELSE m)

RECURSIVE min_slack_real(_, _, _, _, _, _)
\* lines 873-904: the loop over vec1
min_slack_real(g, pr, sl, v1, x, m) ==
    IF x >= Len(v1) THEN m
    ELSE min_slack_real(g, pr, sl, v1, x + 1,
            min_edge_slack(g, pr, sl, igraph_inclist_get(g, v1[x + 1]), v1[x + 1], 0, m))

\* weighted_min_slack without the loop over the real edges (lines 873-904)
weighted_min_slack_phantom_only(g, tp, pr, sl, lb, v1) ==
    min_label(larger_set_ids(g, tp), lb, 0, IGRAPH_INFINITY)
    + min_reached_label(v1, pr, lb, 0, IGRAPH_INFINITY)

\* min_slack of a phase without augmenting path (lines 846-905)
weighted_min_slack(g, tp, pr, sl, lb, v1) ==
    min_slack_real(g, pr, sl, v1, 0,
        min_label(larger_set_ids(g, tp), lb, 0, IGRAPH_INFINITY)
        + min_reached_label(v1, pr, lb, 0, IGRAPH_INFINITY))

RECURSIVE shift_slacks(_, _, _, _)
\* add d to the slack of every listed edge id, one entry at a time
shift_slacks(sl, neis, j, d) ==
    IF j >= Len(neis) THEN sl
    ELSE shift_slacks([sl EXCEPT ![neis[j + 1]] = sl[neis[j + 1]] + d], neis, j + 1, d)

RECURSIVE shift_labels_keep_slack(_, _, _, _, _)
\* shift_labels without the inner loops over the incident edges
shift_labels_keep_slack(g, ids, x, d, st) ==
    IF x >= Len(ids) THEN st
    ELSE LET u == ids[x + 1] IN
         shift_labels_keep_slack(g, ids, x + 1, d,
            [labels |-> [st.labels EXCEPT ![u] = st.labels[u] + d],
             slack |-> st.slack,
             dual |-> st.dual + d])

RECURSIVE shift_labels_keep_dual(_, _, _, _, _)
\* shift_labels without the update of dual
shift_labels_keep_dual(g, ids, x, d, st) ==
    IF x >= Len(ids) THEN st
    ELSE LET u == ids[x + 1] IN
         shift_labels_keep_dual(g, ids, x + 1, d,
            [labels |-> [st.labels EXCEPT ![u] = st.labels[u] + d],
             slack |-> shift_slacks(st.slack, igraph_inclist_get(g, u), 0, d),
             dual |-> st.dual])

RECURSIVE shift_labels(_, _, _, _, _)
\* lines 910-923 (d = -min_slack over vec1) and 927-940 (d = min_slack over
\* vec2): st holds labels, slack and dual
shift_labels(g, ids, x, d, st) ==
    IF x >= Len(ids) THEN st
    ELSE LET u == ids[x + 1] IN
         shift_labels(g, ids, x + 1, d,
            [labels |-> [st.labels EXCEPT ![u] = st.labels[u] + d],
             slack |-> shift_slacks(st.slack, igraph_inclist_get(g, u), 0, d),
             dual |-> st.dual + d])

\* weighted_update_labels without lines 925-940: the labels of the reached
\* vertices of the larger side stay as they are
weighted_update_labels_smaller_side_only(g, v1, v2, min_slack, st) ==
    IF min_slack > 0
    THEN shift_labels(g, v1, 0, -min_slack, st)
    ELSE st

\* weighted_update_labels without lines 910-923: the labels of the reached
\* vertices of the smaller side stay as they are
weighted_update_labels_larger_side_only(g, v1, v2, min_slack, st) ==
    IF min_slack > 0
    THEN shift_labels(g, v2, 0, min_slack, st)
    ELSE st

\* lines 907-941
weighted_update_labels(g, v1, v2, min_slack, st) ==
    IF min_slack > 0
    THEN shift_labels(g, v2, 0, min_slack, shift_labels(g, v1, 0, -min_slack, st))
    ELSE st

\* weighted_update_phantom that finds no new tight phantom edge
weighted_update_phantom_none(g, tp, lb, ep, tpe) == tpe

\* lines 949-964: every pair of the two sides whose labels sum to at most eps
\* is entered in the (sorted, duplicate-free) adjacency list of u
weighted_update_phantom(g, tp, lb, ep, tpe) ==
    [u \in 0..(igraph_vcount(g) - 1) |->
        IF tp[u] = smaller_set_type(g, tp)
        THEN tpe[u] \cup { v \in 0..(igraph_vcount(g) - 1) :
                             tp[v] # smaller_set_type(g, tp) /\ lb[u] + lb[v] <= ep }
        ELSE tpe[u]]

RECURSIVE weighted_cleanup(_, _, _, _)
\* lines 975-985: pairs listed as tight phantom edges leave the matching;
\* st holds match and msize
weighted_cleanup(ids, tpe, x, st) ==
    IF x >= Len(ids) THEN st
    ELSE LET u == ids[x + 1]
             v == st.match[u]
         IN IF v # -1 /\ v \in tpe[u]
            THEN weighted_cleanup(ids, tpe, x + 1,
                    [match |-> [st.match EXCEPT ![u] = -1, ![v] = -1],
                     msize |-> st.msize - 1])
            ELSE weighted_cleanup(ids, tpe, x + 1, st)

RECURSIVE weighted_matching_weight(_, _, _, _, _, _)
\* lines 995-1003: the weights of the tight edges (from, to) with match[from] = to
weighted_matching_weight(g, wt, sl, ep, mt, e) ==
    IF e >= igraph_ecount(g) THEN 0
    ELSE (IF IS_TIGHT(sl, e, ep) /\ mt[igraph_edge(g, e)[1]] = igraph_edge(g, e)[2]
          THEN wt[e] ELSE 0)
         + weighted_matching_weight(g, wt, sl, ep, mt, e + 1)

RECURSIVE weighted_bfs(_, _, _, _, _, _, _)
\* lines 707-786: the BFS loop (8) run until the queue is empty
weighted_bfs(g, mt, sl, lb, ep, tpe, st) ==
    IF st.q = <<>> THEN st
    ELSE weighted_bfs(g, mt, sl, lb, ep, tpe, weighted_bfs_pop(g, mt, sl, lb, ep, tpe, st))

\* lines 795-817 on the loop state
phase_augment(bfs, st) ==
    [st EXCEPT !.match = augment_path(bfs.parent, st.match, bfs.endpoint,
                                      bfs.parent[bfs.endpoint]),
               !.msize = st.msize + 1]

\* lines 839-964 on the loop state
phase_update(g, tp, ep, bfs, st) ==
    LET upd == weighted_update_labels(g, bfs.vec1, bfs.vec2,
                  weighted_min_slack(g, tp, bfs.parent, st.slack, st.labels, bfs.vec1),
                  [labels |-> st.labels, slack |-> st.slack, dual |-> st.dual])
    IN [st EXCEPT !.labels = upd.labels, !.slack = upd.slack, !.dual = upd.dual,
                  !.tight_phantom_edges =
                      weighted_update_phantom(g, tp, upd.labels, ep, st.tight_phantom_edges)]

\* what the BFS of a phase leaves
phase_bfs(g, tp, ep, st) ==
    weighted_bfs(g, st.match, st.slack, st.labels, ep, st.tight_phantom_edges,
        [endpoint |-> -1] @@
        bfs_roots(smaller_set_ids(g, tp), st.match,
            [q |-> <<>>, parent |-> [v \in 0..(igraph_vcount(g) - 1) |-> -1],
             vec1 |-> <<>>, vec2 |-> <<>>]))

\* one iteration of the main loop (5) on [match, msize, labels, slack, dual,
\* tight_phantom_edges]
weighted_phase_end(g, tp, ep, bfs, st) ==
    IF bfs.endpoint # -1 THEN phase_augment(bfs, st) ELSE phase_update(g, tp, ep, bfs, st)

weighted_phase(g, tp, ep, st) ==
    weighted_phase_end(g, tp, ep, phase_bfs(g, tp, ep, st), st)

RECURSIVE weighted_main_loop(_, _, _, _, _)
\* the main loop (5) run to its end; hang when it is still running after
\* MaxSteps phases
weighted_main_loop(g, tp, ep, st, fuel) ==
    IF st.msize >= smaller_set_size(g, tp) THEN [hang |-> FALSE, st |-> st]
    ELSE IF fuel = 0 THEN [hang |-> TRUE, st |-> st]
    ELSE weighted_main_loop(g, tp, ep, weighted_phase(g, tp, ep, st), fuel - 1)

\* steps (3) and (4): the loop state before the first phase
weighted_start(g, wt, ep, il, um) ==
    [match |-> um.match, msize |-> um.num_matched, labels |-> il.labels,
     slack |-> initial_slack(g, wt, il.labels), dual |-> il.dual,
     tight_phantom_edges |-> [v \in 0..(igraph_vcount(g) - 1) |-> {}]]

\* what the cleanup and the output parameters make of the loop state
weighted_outputs(g, tp, wt, ep, st) ==
    LET cl == weighted_cleanup(smaller_set_ids(g, tp), st.tight_phantom_edges, 0,
                               [match |-> st.match, msize |-> st.msize])
    IN [err |-> FALSE, hang |-> FALSE, match |-> cl.match, msize |-> cl.msize,
        weight |-> weighted_matching_weight(g, wt, st.slack, ep, cl.match, 0)]

\* the result of the unweighted call of step (4), then the loop and the outputs
weighted_after_initial(g, tp, wt, ep, il, um) ==
    IF um.err \/ um.hang
    THEN [err |-> um.err, hang |-> um.hang, match |-> <<>>, msize |-> 0, weight |-> 0]
    ELSE LET r == weighted_main_loop(g, tp, ep, weighted_start(g, wt, ep, il, um), MaxSteps)
         IN IF r.hang
            THEN [err |-> FALSE, hang |-> TRUE, match |-> <<>>, msize |-> 0, weight |-> 0]
            ELSE weighted_outputs(g, tp, wt, ep, r.st)

\* the initial labels, then the rest
weighted_after_labels(g, tp, wt, ep, il) ==
    IF il.err
    THEN [err |-> TRUE, hang |-> FALSE, match |-> <<>>, msize |-> 0, weight |-> 0]
    ELSE weighted_after_initial(g, tp, wt, ep, il,
            unweighted_matching(tight_subgraph(g, initial_slack(g, wt, il.labels), ep), tp))

\* igraph_i_maximum_bipartite_matching_weighted run to its end with the
\* (clamped) eps ep: [err, hang, match, msize, weight]
weighted_matching(g, tp, wt, ep) ==
    weighted_after_labels(g, tp, wt, ep,
        initial_labels(g, tp, wt, 0,
            [err |-> FALSE, labels |-> [v \in 0..(igraph_vcount(g) - 1) |-> 0], dual |-> 0]))

(***************************************************************************)
(* Inputs                                                                  *)
(***************************************************************************)
VertexPairs(n, directed) ==
    { p \in (0..(n - 1)) \X (0..(n - 1)) : directed \/ p[1] <= p[2] }

PairRank(p) == p[1] * (MaxN + MaxVN + 1) + p[2]

\* edge lists of at most maxE edges, in ascending order of the pairs (edge ids
\* are a numbering of the edges; every multiset of edges has one such list)
EdgeLists(n, directed, maxE) ==
    { s \in UNION { [1..m -> VertexPairs(n, directed)] : m \in 0..maxE } :
        \A x \in 1..(Len(s) - 1) : PairRank(s[x]) <= PairRank(s[x + 1]) }

Graphs(minN, maxN, maxE, dirs) ==
    UNION { { [n |-> n, directed |-> d, edges |-> s] : s \in EdgeLists(n, d, maxE) } :
            n \in minN..maxN, d \in dirs }

TypeVectors(n) == [0..(n - 1) -> BOOLEAN]

\* an output argument the call has not written yet
Unwritten == Ref(-1)

IdleUW ==
    /\ match = <<>> /\ labels = <<>> /\ q = <<>> /\ num_matched = 0
    /\ smaller_set = FALSE /\ label_changed = 0
IdleW ==
    /\ slack = <<>> /\ parent = <<>> /\ vec1 = <<>> /\ vec2 = <<>> /\ msize = 0
    /\ dual = 0 /\ tight_phantom_edges = <<>> /\ alternating_path_endpoint = -1
IdleG ==
    /\ even_level = <<>> /\ odd_level = <<>> /\ bridges = <<>>
    /\ predecessors = <<>> /\ anomalies = <<>> /\ level_i_queue = <<>>
    /\ next_level_i_queue = <<>> /\ cur_i = -1 /\ has_vertices = FALSE
    /\ bloss_aug_calls = <<>>

NoCall == [op |-> "none", x |-> -1, y |-> -1]

IdleD ==
    /\ element_count = 0 /\ nodes = <<>>
    /\ last_call = NoCall /\ find_result = -1 /\ united = <<>>

IdleB ==
    /\ w1 = -1 /\ w2 = -1 /\ vl = -1 /\ vr = -1 /\ dcv = -1 /\ barrier = -1
    /\ left = <<>> /\ right = <<>> /\ father = <<>>
    /\ pathFound = FALSE /\ blossomFound = FALSE /\ erased = FALSE
    /\ erased_nodes = <<>> /\ blossom = <<>> /\ unused_ancestors = <<>>

(***************************************************************************)
(* The validators as calls: SpecV.                                         *)
(***************************************************************************)
InitV ==
    /\ graph \in Graphs(0, MaxVN, MaxVE, BOOLEAN)
    /\ types \in {NULL} \cup { Ref(t) : t \in TypeVectors(graph.n) }
    /\ matching \in UNION { [0..(len - 1) -> (-2)..MaxVN] : len \in 0..MaxVN }
    /\ weights = NULL /\ eps = 0
    /\ matching_size = Unwritten /\ matching_weight = Unwritten
    /\ pc = "call" /\ retval = "none" /\ result = FALSE
    /\ IdleUW /\ IdleW /\ IdleG /\ IdleD /\ IdleB

CallIsMatching ==
    /\ pc = "call"
    /\ result' = igraph_is_matching(graph, types, matching)
    /\ retval' = "IGRAPH_SUCCESS"
    /\ pc' = "is_matching_done"
    /\ UNCHANGED <<args, outs, uw_locals, w_locals, g_locals, d_locals, b_locals>>

CallIsMaximalMatching ==
    /\ pc = "call"
    /\ result' = igraph_is_maximal_matching(graph, types, matching)
    /\ retval' = "IGRAPH_SUCCESS"
    /\ pc' = "is_maximal_done"
    /\ UNCHANGED <<args, outs, uw_locals, w_locals, g_locals, d_locals, b_locals>>

NextV == CallIsMatching \/ CallIsMaximalMatching

SpecV == InitV /\ [][NextV]_vars

\* the sanity checks with the weights check left out
sanity_checks_types_only(g, tp, wt) ==
    IF igraph_vector_size(tp) < igraph_vcount(g) THEN "IGRAPH_EINVAL" ELSE "IGRAPH_SUCCESS"

\* lines 293-299 of igraph_maximum_bipartite_matching; wt is the optional
\* weights argument
sanity_checks(g, tp, wt) ==
    IF igraph_vector_size(tp) < igraph_vcount(g) THEN "IGRAPH_EINVAL"
    ELSE IF ~wt.null /\ igraph_vector_size(wt.v) < igraph_ecount(g) THEN "IGRAPH_EINVAL"
    ELSE "IGRAPH_SUCCESS"

(***************************************************************************)
(* igraph_maximum_bipartite_matching without weights: SpecU.               *)
(***************************************************************************)
InitU ==
    /\ graph \in Graphs(0, MaxN, MaxE, {FALSE})
    /\ types \in { Ref(t) : t \in TypeVectors(graph.n) }
    /\ weights = NULL /\ eps = 0
    /\ matching = <<>>
    /\ matching_size = Unwritten /\ matching_weight = Unwritten
    /\ pc = "call" /\ retval = "none" /\ result = FALSE
    /\ IdleUW /\ IdleW /\ IdleG /\ IdleD /\ IdleB

\* the sanity checks of igraph_maximum_bipartite_matching, then steps (1)-(3)
\* of the unweighted matcher
UGreedy ==
    /\ pc = "call" /\ weights.null
    /\ sanity_checks(graph, types.v, weights) = "IGRAPH_SUCCESS"
    /\ LET gr == unweighted_greedy(graph, types.v) IN
       IF gr.err
       THEN /\ retval' = "IGRAPH_EINVAL" /\ pc' = "done"
            /\ UNCHANGED <<match, num_matched, smaller_set>>
       ELSE /\ match' = gr.match
            /\ num_matched' = gr.num_matched
            /\ smaller_set' = smaller_set_of(graph, gr.j)
            /\ pc' = "uw_relabel"
            /\ UNCHANGED retval
    /\ UNCHANGED <<args, outs, result, labels, q, label_changed, w_locals, g_locals, d_locals, b_locals>>

\* steps (4) and (5)
URelabel ==
    /\ pc = "uw_relabel"
    /\ labels' = unweighted_relabel(graph, types.v, match, smaller_set)
    /\ q' = unmatched_of_type(graph, types.v, match, smaller_set, 0)
    /\ label_changed' = 0
    /\ pc' = "uw_loop"
    /\ UNCHANGED <<args, outs, retval, result, match, num_matched, smaller_set,
                   w_locals, g_locals, d_locals, b_locals>>

\* one iteration of the main loop (6)
UPush ==
    /\ pc = "uw_loop" /\ q # <<>>
    /\ LET st == unweighted_push(graph, types.v, smaller_set,
                    [match |-> match, labels |-> labels, q |-> q,
                     num_matched |-> num_matched, label_changed |-> label_changed])
       IN /\ match' = st.match /\ labels' = st.labels /\ q' = st.q
          /\ num_matched' = st.num_matched /\ label_changed' = st.label_changed
    /\ UNCHANGED <<args, outs, pc, retval, result, smaller_set, w_locals, g_locals, d_locals, b_locals>>

\* what a read through a null pointer can yield when the call goes on
NullReads == {-1, 0}

\* the output parameters (lines 454-459), and *matching_weight =
\* *matching_size in the caller (lines 304-306).  The caller reads
\* *matching_size also when matching_size is null: the call dies there, or
\* goes on with whatever the read yields.
UFinish ==
    /\ pc = "uw_loop" /\ q = <<>>
    /\ matching' = match
    /\ matching_size' = IF matching_size.null THEN matching_size ELSE Ref(num_matched)
    /\ IF matching_weight.null
       THEN UNCHANGED matching_weight /\ retval' = "IGRAPH_SUCCESS" /\ pc' = "done"
       ELSE IF ~matching_size.null
       THEN /\ matching_weight' = Ref(num_matched)
            /\ retval' = "IGRAPH_SUCCESS" /\ pc' = "done"
       ELSE \/ UNCHANGED <<matching_weight, retval>> /\ pc' = "crashed"
            \/ \E read \in NullReads :
                  /\ matching_weight' = Ref(read)
                  /\ retval' = "IGRAPH_SUCCESS" /\ pc' = "done"
    /\ UNCHANGED <<args, result, uw_locals, w_locals, g_locals, d_locals, b_locals>>

NextU == UGreedy \/ URelabel \/ UPush \/ UFinish

SpecU == InitU /\ [][NextU]_vars

(***************************************************************************)
(* igraph_maximum_bipartite_matching with weights: SpecW.                  *)
(***************************************************************************)
EpsValues == {-1, 0}

\* eps with the clamp left out
eps_as_given == eps

\* eps after the clamp at lines 576-579
clamped_eps == IF eps < 0 THEN 0 ELSE eps

InitW ==
    /\ graph \in Graphs(0, MaxN, MaxE, {FALSE})
    /\ types \in { Ref(t) : t \in TypeVectors(graph.n) }
    /\ weights \in { Ref(w) : w \in [0..(Len(graph.edges) - 1) -> 0..MaxW] }
    /\ eps \in EpsValues
    /\ matching = <<>>
    /\ matching_size = Unwritten /\ matching_weight = Unwritten
    /\ pc = "call" /\ retval = "none" /\ result = FALSE
    /\ IdleUW /\ IdleW /\ IdleG /\ IdleD /\ IdleB

\* the sanity checks of igraph_maximum_bipartite_matching, then steps (1)-(4)
\* of the weighted matcher
WInit ==
    /\ pc = "call" /\ ~weights.null
    /\ sanity_checks(graph, types.v, weights) = "IGRAPH_SUCCESS"
    /\ LET n == igraph_vcount(graph)
           il == initial_labels(graph, types.v, weights.v, 0,
                    [err |-> FALSE, labels |-> [v \in 0..(n - 1) |-> 0], dual |-> 0])
           sl == initial_slack(graph, weights.v, il.labels)
           r == unweighted_matching(tight_subgraph(graph, sl, clamped_eps), types.v)
       IN IF il.err \/ r.err \/ r.hang
          THEN /\ pc' = IF il.err \/ r.err THEN "done" ELSE "hang"
               /\ retval' = IF il.err \/ r.err THEN "IGRAPH_EINVAL" ELSE retval
               /\ UNCHANGED <<match, labels, w_locals>>
          ELSE /\ match' = r.match
               /\ msize' = r.num_matched
               /\ labels' = il.labels
               /\ slack' = sl
               /\ dual' = il.dual
               /\ parent' = [v \in 0..(n - 1) |-> 0]
               /\ tight_phantom_edges' = [v \in 0..(n - 1) |-> {}]
               /\ pc' = "w_loop"
               /\ UNCHANGED <<retval, vec1, vec2, alternating_path_endpoint>>
    /\ UNCHANGED <<args, outs, result, q, num_matched, smaller_set, label_changed, g_locals, d_locals, b_locals>>

\* step (7) of a phase: the roots of the BFS
WPhaseStart ==
    /\ pc = "w_loop" /\ msize < smaller_set_size(graph, types.v)
    /\ LET st == bfs_roots(smaller_set_ids(graph, types.v), match,
                    [q |-> q, parent |-> [v \in 0..(igraph_vcount(graph) - 1) |-> -1],
                     vec1 |-> <<>>, vec2 |-> <<>>])
       IN q' = st.q /\ parent' = st.parent /\ vec1' = st.vec1 /\ vec2' = st.vec2
    /\ alternating_path_endpoint' = -1
    /\ pc' = "w_bfs"
    /\ UNCHANGED <<args, outs, retval, result, match, labels, num_matched, smaller_set,
                   label_changed, slack, msize, dual, tight_phantom_edges, g_locals, d_locals, b_locals>>

\* one iteration of the BFS loop (8)
WBfsPop ==
    /\ pc = "w_bfs" /\ q # <<>>
    /\ LET st == weighted_bfs_pop(graph, match, slack, labels, clamped_eps,
                    tight_phantom_edges,
                    [q |-> q, parent |-> parent, vec1 |-> vec1, vec2 |-> vec2,
                     endpoint |-> alternating_path_endpoint])
       IN /\ q' = st.q /\ parent' = st.parent /\ vec1' = st.vec1 /\ vec2' = st.vec2
          /\ alternating_path_endpoint' = st.endpoint
    /\ UNCHANGED <<args, outs, pc, retval, result, match, labels, num_matched, smaller_set,
                   label_changed, slack, msize, dual, tight_phantom_edges, g_locals, d_locals, b_locals>>

\* lines 789-825: the matching grows along the alternating path
WAugment ==
    /\ pc = "w_bfs" /\ q = <<>> /\ alternating_path_endpoint # -1
    /\ match' = augment_path(parent, match, alternating_path_endpoint,
                              parent[alternating_path_endpoint])
    /\ msize' = msize + 1
    /\ pc' = "w_loop"
    /\ UNCHANGED <<args, outs, retval, result, labels, q, num_matched, smaller_set,
                   label_changed, slack, parent, vec1, vec2, dual, tight_phantom_edges,
                   alternating_path_endpoint, g_locals, d_locals, b_locals>>

\* lines 839-964: no augmenting path; the labels move by min_slack and the
\* tight phantom edges are recomputed
WUpdate ==
    /\ pc = "w_bfs" /\ q = <<>> /\ alternating_path_endpoint = -1
    /\ LET min_slack == weighted_min_slack(graph, types.v, parent, slack, labels, vec1)
           st == weighted_update_labels(graph, vec1, vec2, min_slack,
                    [labels |-> labels, slack |-> slack, dual |-> dual])
       IN /\ labels' = st.labels /\ slack' = st.slack /\ dual' = st.dual
          /\ tight_phantom_edges' =
                weighted_update_phantom(graph, types.v, st.labels, clamped_eps,
                                        tight_phantom_edges)
    /\ pc' = "w_loop"
    /\ UNCHANGED <<args, outs, retval, result, match, q, num_matched, smaller_set,
                   label_changed, parent, vec1, vec2, msize,
                   alternating_path_endpoint, g_locals, d_locals, b_locals>>

\* lines 974-1021: the cleanup and the output parameters
WFinish ==
    /\ pc = "w_loop" /\ msize >= smaller_set_size(graph, types.v)
    /\ LET st == weighted_cleanup(smaller_set_ids(graph, types.v), tight_phantom_edges, 0,
                                  [match |-> match, msize |-> msize])
       IN /\ match' = st.match /\ msize' = st.msize
          /\ matching' = st.match
          /\ matching_size' = IF matching_size.null THEN matching_size ELSE Ref(st.msize)
          /\ matching_weight' =
                IF matching_weight.null THEN matching_weight
                ELSE Ref(weighted_matching_weight(graph, weights.v, slack, clamped_eps,
                                                  st.match, 0))
    /\ retval' = "IGRAPH_SUCCESS"
    /\ pc' = "done"
    /\ UNCHANGED <<args, result, labels, q, num_matched, smaller_set, label_changed,
                   slack, parent, vec1, vec2, dual, tight_phantom_edges,
                   alternating_path_endpoint, g_locals, d_locals, b_locals>>

NextW == WInit \/ WPhaseStart \/ WBfsPop \/ WAugment \/ WUpdate \/ WFinish

SpecW == InitW /\ [][NextW]_vars

(***************************************************************************)
(* igraph_maximum_bipartite_matching with any vector lengths and optional  *)
(* outputs: SpecE.                                                         *)
(***************************************************************************)
\* vectors over S of every length up to n
VectorsUpTo(n, S) == UNION { [0..(len - 1) -> S] : len \in 0..n }

InitE ==
    /\ graph \in Graphs(0, MaxVN, MaxVE, {FALSE})
    /\ types \in { Ref(t) : t \in VectorsUpTo(graph.n, BOOLEAN) }
    /\ weights \in {NULL} \cup { Ref(w) : w \in VectorsUpTo(Len(graph.edges), 0..1) }
    /\ eps \in EpsValues
    /\ matching = <<>>
    /\ matching_size \in {Unwritten, NULL}
    /\ matching_weight \in {Unwritten, NULL}
    /\ pc = "call" /\ retval = "none" /\ result = FALSE
    /\ IdleUW /\ IdleW /\ IdleG /\ IdleD /\ IdleB

\* lines 293-299: a vector that is too short
ESanity ==
    /\ pc = "call"
    /\ sanity_checks(graph, types.v, weights) # "IGRAPH_SUCCESS"
    /\ retval' = sanity_checks(graph, types.v, weights)
    /\ pc' = "done"
    /\ UNCHANGED <<args, outs, result, uw_locals, w_locals, g_locals, d_locals, b_locals>>

NextE == ESanity \/ NextU \/ NextW

SpecE == InitE /\ [][NextE]_vars

(***************************************************************************)
(* igraph_maximum_matching and igraph_i_maximum_matching_unweighted: SpecG *)
(***************************************************************************)
RECURSIVE even_level_neighbors(_, _, _, _, _)
\* lines 1268-1300: the neighbours of a vertex v of even level i; st holds
\* even_level, odd_level, bridges, predecessors, anomalies,
\* next_level_i_queue and crashed.  unused_ancestors and unvisited_ancestors
\* receive the pushes of predecessors and are read nowhere.
even_level_neighbors(neis, j, v, i, st) ==
    IF j >= Len(neis) THEN st
    ELSE LET u == neis[j + 1] IN
         IF st.even_level[u] # -1
         THEN even_level_neighbors(neis, j + 1, v, i,
                [st EXCEPT !.bridges[(st.even_level[u] + st.even_level[v]) \div 2] =
                                @ \o <<u, v>>])
         ELSE even_level_neighbors(neis, j + 1, v, i,
                [st EXCEPT
                   !.odd_level[u] = IF @ = -1 THEN i + 1 ELSE @,
                   !.next_level_i_queue = IF st.odd_level[u] = -1 THEN Append(@, u) ELSE @,
                   !.predecessors[u] =
                        IF st.odd_level[u] \in {-1, i + 1} THEN Append(@, v) ELSE @,
                   !.anomalies[u] =
                        IF st.odd_level[u] # -1 /\ st.odd_level[u] < i
                        THEN Append(@, v) ELSE @])

RECURSIVE even_level_loop(_, _, _, _)
\* lines 1264-1301: level_i_queue is emptied at an even level i
even_level_loop(g, i, liq, st) ==
    IF liq = <<>> THEN st
    ELSE even_level_loop(g, i, Tail(liq),
            even_level_neighbors(igraph_neighbors(g, Head(liq)), 0, Head(liq), i, st))

RECURSIVE odd_level_loop(_, _, _, _, _)
\* lines 1307-1330: level_i_queue is emptied at an odd level i.  For an
\* unmatched v the index u is -1: the read of odd_level[-1] is outside the
\* vector and yields oob; the writes that follow a read of -1 are outside
\* the vectors too (crashed).
odd_level_loop(mt, i, liq, oob, st) ==
    IF liq = <<>> \/ st.crashed THEN st
    ELSE LET v == Head(liq)
             u == mt[v]
             odd_u == IF u = -1 THEN oob ELSE st.odd_level[u]
             st1 == IF odd_u = i
                    THEN [st EXCEPT !.bridges[(odd_u + st.odd_level[v]) \div 2] =
                                        @ \o <<u, v>>]
                    ELSE st
         IN IF odd_u # -1 THEN odd_level_loop(mt, i, Tail(liq), oob, st1)
            ELSE IF u = -1 THEN [st1 EXCEPT !.crashed = TRUE]
            ELSE odd_level_loop(mt, i, Tail(liq), oob,
                    [st1 EXCEPT !.even_level[u] = i + 1,
                                !.next_level_i_queue = Append(@, u),
                                !.predecessors[u] = Append(@, v)])

\* lines 1244-1253: the unmatched vertices, ascending
exposed_vertices(g, mt) == SortedSeq({ v \in 0..(igraph_vcount(g) - 1) : mt[v] = -1 })

\* the caller's vector before the call
RECURSIVE bridges_loop(_, _, _)
\* lines 1338-1340: the loop over the entries of bridges(i); its body is
\* empty, no call of bloss_aug is made
bridges_loop(br, j, calls) ==
    IF j >= Len(br) THEN calls
    ELSE bridges_loop(br, j + 1, calls)

CallerVectors == UNION { [0..(len - 1) -> (-1)..0] : len \in 0..2 }

InitG ==
    /\ graph \in Graphs(0, MaxN, MaxE, {FALSE})
    /\ types = NULL /\ eps = 0
    /\ weights \in {NULL, Ref([e \in 0..(Len(graph.edges) - 1) |-> 1])}
    /\ matching \in CallerVectors
    /\ matching_size \in {Unwritten, NULL}
    /\ matching_weight = Unwritten
    /\ pc = "call" /\ retval = "none" /\ result = FALSE
    /\ IdleUW /\ IdleW /\ IdleG /\ IdleD /\ IdleB

\* lines 1155-1192: the data structures
GCall ==
    /\ pc = "call"
    /\ LET n == igraph_vcount(graph) IN
       /\ even_level' = [v \in 0..(n - 1) |-> 0]
       /\ odd_level' = [v \in 0..(n - 1) |-> 0]
       /\ predecessors' = [v \in 0..(n - 1) |-> <<>>]
       /\ anomalies' = [v \in 0..(n - 1) |-> <<>>]
       /\ bridges' = [j \in 0..(2 * n - 1) |-> <<>>]
       /\ match' = [v \in 0..(n - 1) |-> -1]
       /\ has_vertices' = (n # 0)
    /\ pc' = "g_outer"
    /\ UNCHANGED <<args, outs, retval, result, labels, q, num_matched, smaller_set,
                   label_changed, w_locals, level_i_queue, next_level_i_queue, cur_i,
                   bloss_aug_calls, d_locals, b_locals>>

\* lines 1194-1256: the beginning of a phase.  visited_nodes is filled at
\* line 1226 without ever having been initialised: the fill runs over
\* whatever the stack holds, and the call either dies there or goes on.
GPhaseStart ==
    /\ pc = "g_outer" /\ has_vertices
    /\ \E fill \in {"dies", "goes_on"} :
        IF fill = "dies"
        THEN /\ pc' = "crashed"
             /\ UNCHANGED <<even_level, odd_level, bridges, predecessors, anomalies,
                            level_i_queue, cur_i>>
        ELSE LET n == igraph_vcount(graph) IN
             /\ even_level' = [v \in 0..(n - 1) |-> IF match[v] = -1 THEN 0 ELSE -1]
             /\ odd_level' = [v \in 0..(n - 1) |-> -1]
             /\ predecessors' = [v \in 0..(n - 1) |-> <<>>]
             /\ anomalies' = [v \in 0..(n - 1) |-> <<>>]
             /\ bridges' = [j \in 0..(2 * n - 1) |-> IF j < n THEN <<>> ELSE bridges[j]]
             /\ cur_i' = -1
             /\ level_i_queue' = level_i_queue \o exposed_vertices(graph, match)
             /\ pc' = "g_level"
    /\ UNCHANGED <<args, outs, retval, result, uw_locals, w_locals,
                   next_level_i_queue, has_vertices, bloss_aug_calls, d_locals, b_locals>>

\* lines 1257-1350: one level of the search.  augmented is never set, and
\* the loop over bridges(i) at lines 1338-1340 has an empty body.
GLevel ==
    /\ pc = "g_level" /\ has_vertices
    /\ \E oob \in {-1, cur_i + 1, 2 * igraph_vcount(graph)} :
        LET i == cur_i + 1
            st0 == [even_level |-> even_level, odd_level |-> odd_level,
                    bridges |-> bridges, predecessors |-> predecessors,
                    anomalies |-> anomalies, next_level_i_queue |-> next_level_i_queue,
                    crashed |-> FALSE]
            st == IF i % 2 = 0
                  THEN even_level_loop(graph, i, level_i_queue, st0)
                  ELSE odd_level_loop(match, i, level_i_queue, oob, st0)
        IN /\ cur_i' = i
           /\ even_level' = st.even_level /\ odd_level' = st.odd_level
           /\ bridges' = st.bridges /\ predecessors' = st.predecessors
           /\ anomalies' = st.anomalies
           /\ level_i_queue' = st.next_level_i_queue
           /\ next_level_i_queue' = <<>>
           /\ has_vertices' = (Len(st.next_level_i_queue) # 0)
           /\ bloss_aug_calls' = bridges_loop(st.bridges[i], 0, bloss_aug_calls)
           /\ pc' = IF st.crashed THEN "crashed"
                    ELSE IF Len(st.next_level_i_queue) # 0 THEN "g_level" ELSE "g_outer"
    /\ UNCHANGED <<args, outs, retval, result, uw_locals, w_locals, d_locals, b_locals>>

\* lines 1355-1375 and 1086-1089: the size is written as 0, the matching
\* argument is not written, and igraph_maximum_matching returns success.
\* visited_nodes is destroyed at line 1361 without having been initialised.
GFinish ==
    /\ pc = "g_outer" /\ ~has_vertices
    /\ IF matching_size.null
       THEN pc' = "crashed" /\ UNCHANGED <<matching_size, retval>>
       ELSE /\ matching_size' = Ref(0)
            /\ \E destroy \in {"dies", "goes_on"} :
                  IF destroy = "dies"
                  THEN pc' = "crashed" /\ UNCHANGED retval
                  ELSE pc' = "done" /\ retval' = "IGRAPH_SUCCESS"
    /\ UNCHANGED <<args, matching, matching_weight, result, uw_locals, w_locals, g_locals, d_locals, b_locals>>

NextG == GCall \/ GPhaseStart \/ GLevel \/ GFinish

SpecG == InitG /\ [][NextG]_vars

(***************************************************************************)
(* The disjoint set: igraph_i_disjoint_set_init, _find and _unite: SpecD.  *)
(***************************************************************************)
\* sizeof(struct igraph_i_disjoint_set_node): two 64-bit integers and a
\* pointer
SizeofNode == 24

\* igraph_i_disjoint_set_init: the nodes array after the loop
disjoint_set_init(n) ==
    [i \in 0..(n - 1) |-> [x |-> i, size |-> 1, parent |-> NULL]]

\* T->nodes + (x*sizeof(struct igraph_i_disjoint_set_node)): the index of the
\* node the pointer addresses (pointer arithmetic scales by the node size
\* once more)
node_at(x) == x * SizeofNode

RECURSIVE find_root(_, _, _, _)
\* the first loop of find, from the node at index i: [out, root]; out is
\* "oob" when the node lies outside the array and "hang" when the parent
\* chain never ends
find_root(nd, n, i, fuel) ==
    IF i < 0 \/ i >= n THEN [out |-> "oob", root |-> i]
    ELSE IF nd[i].parent.null THEN [out |-> "ok", root |-> i]
    ELSE IF fuel = 0 THEN [out |-> "hang", root |-> i]
    ELSE find_root(nd, n, nd[i].parent.v, fuel - 1)

RECURSIVE find_compress(_, _, _)
\* the second loop of find: every node on the chain from index i gets root
\* as its parent
find_compress(nd, i, root) ==
    IF nd[i].parent.null THEN nd
    ELSE find_compress([nd EXCEPT ![i].parent = Ref(root)], nd[i].parent.v, root)

\* igraph_i_disjoint_set_find as far as it stays inside the array:
\* [out, x, nodes]
disjoint_set_find(nd, n, x) ==
    LET r == find_root(nd, n, node_at(x), n) IN
    IF r.out # "ok" THEN [out |-> r.out, x |-> -1, nodes |-> nd]
    ELSE [out |-> "ok", x |-> nd[r.root].x, nodes |-> find_compress(nd, node_at(x), r.root)]

\* what a find that has read outside the array can return when it goes on
GarbageX(n) == {0, n}

\* the outcomes of find(T, x): outside the array the call dies or goes on
\* with what it has read
FindOutcomes(nd, n, x) ==
    LET r == disjoint_set_find(nd, n, x) IN
    IF r.out = "ok" THEN {[kind |-> "ok", x |-> r.x, nodes |-> r.nodes]}
    ELSE IF r.out = "hang" THEN {[kind |-> "hang", x |-> -1, nodes |-> nd]}
    ELSE {[kind |-> "dies", x |-> -1, nodes |-> nd]}
         \cup {[kind |-> "ok", x |-> g, nodes |-> nd] : g \in GarbageX(n)}

\* the body of if (x != y) in unite: temp = x; y = x; x = temp leaves both
\* x and y at x
unite_link(nd, x, y) ==
    LET x2 == x
        y2 == IF nd[x].size < nd[y].size THEN x ELSE y
    IN [nd EXCEPT ![y2].parent = Ref(x2), ![y2].size = nd[x2].size + nd[y2].size]

\* unite after the two finds have returned x and y
UniteLinkOutcomes(nd, n, x, y) ==
    IF x = y THEN {[kind |-> "ok", nodes |-> nd]}
    ELSE IF x < 0 \/ x >= n \/ y < 0 \/ y >= n
    THEN {[kind |-> "dies", nodes |-> nd], [kind |-> "ok", nodes |-> nd]}
    ELSE {[kind |-> "ok", nodes |-> unite_link(nd, x, y)]}

\* the outcomes of unite(T, x, y)
UniteOutcomes(nd, n, x, y) ==
    UNION { IF fx.kind # "ok" THEN {[kind |-> fx.kind, nodes |-> fx.nodes]}
            ELSE UNION { IF fy.kind # "ok" THEN {[kind |-> fy.kind, nodes |-> fy.nodes]}
                         ELSE UniteLinkOutcomes(fy.nodes, n, fx.x, fy.x)
                         : fy \in FindOutcomes(fx.nodes, n, y) }
            : fx \in FindOutcomes(nd, n, x) }

\* the element counts tried: arrays shorter and longer than one and two
\* node sizes
ElementCounts == {1, 3, SizeofNode + 1, 2 * SizeofNode + 1}

\* the arguments tried
Elements(n) == {0, 1, 2} \cap 0..(n - 1)

\* where a call that ended with kind k leaves the caller
AfterCall(k) == IF k = "ok" THEN "d_idle" ELSE IF k = "dies" THEN "crashed" ELSE "hang"

InitD ==
    /\ graph = [n |-> 0, edges |-> <<>>, directed |-> FALSE]
    /\ types = NULL /\ weights = NULL /\ eps = 0
    /\ matching = <<>> /\ matching_size = Unwritten /\ matching_weight = Unwritten
    /\ pc = "call" /\ retval = "none" /\ result = FALSE
    /\ IdleUW /\ IdleW /\ IdleG /\ IdleB
    /\ element_count \in ElementCounts
    /\ nodes = <<>> /\ last_call = NoCall /\ find_result = -1 /\ united = <<>>

DInit ==
    /\ pc = "call"
    /\ nodes' = disjoint_set_init(element_count)
    /\ last_call' = [op |-> "init", x |-> element_count, y |-> -1]
    /\ pc' = "d_idle"
    /\ UNCHANGED <<args, outs, retval, result, uw_locals, w_locals, g_locals, b_locals,
                   element_count, find_result, united>>

DFind ==
    /\ pc = "d_idle"
    /\ \E x \in Elements(element_count) :
         \E o \in FindOutcomes(nodes, element_count, x) :
           /\ nodes' = o.nodes
           /\ find_result' = o.x
           /\ last_call' = [op |-> "find", x |-> x, y |-> -1]
           /\ pc' = AfterCall(o.kind)
    /\ UNCHANGED <<args, outs, retval, result, uw_locals, w_locals, g_locals, b_locals,
                   element_count, united>>

DUnite ==
    /\ pc = "d_idle" /\ Len(united) < MaxUnites
    /\ \E x, y \in Elements(element_count) :
         \E o \in UniteOutcomes(nodes, element_count, x, y) :
           /\ nodes' = o.nodes
           /\ united' = Append(united, <<x, y>>)
           /\ last_call' = [op |-> "unite", x |-> x, y |-> y]
           /\ pc' = AfterCall(o.kind)
    /\ UNCHANGED <<args, outs, retval, result, uw_locals, w_locals, g_locals, b_locals,
                   element_count, find_result>>

NextD == DInit \/ DFind \/ DUnite

SpecD == InitD /\ [][NextD]_vars

(***************************************************************************)
(* igraph_i_maximum_matching_unweighted_bloss_aug: SpecB.                  *)
(***************************************************************************)
\* lines 1422-1428: the level of v from its even and odd level
vertex_level(ev, od, v) ==
    LET l1 == IF ev[v] <= od[v] THEN ev[v] ELSE od[v]
        l2 == IF ev[v] = -1 THEN od[v] ELSE l1
    IN IF od[v] = -1 THEN ev[v] ELSE l2

\* the locals and the caller's vectors that one iteration works on
BlossState ==
    [vl |-> vl, vr |-> vr, dcv |-> dcv, barrier |-> barrier, left |-> left,
     right |-> right, father |-> father, blossomFound |-> blossomFound,
     erased |-> erased, erased_nodes |-> erased_nodes, ua |-> unused_ancestors,
     pred |-> predecessors, undefined |-> FALSE]

\* igraph_vector_int_pop_back: the list without its last element
pop_back_rest(list) == SubSeq(list, 1, Len(list) - 1)

RECURSIVE left_tree_loop(_, _, _)
\* lines 1455-1520: the inner loop of the left tree; a is the vertex whose
\* unused_ancestors list the pointer ancestors refers to
left_tree_loop(a, ww1, st) ==
    LET u == st.ua[a][Len(st.ua[a])]
        s1 == [st EXCEPT !.ua[a] = pop_back_rest(st.ua[a])]
    IN IF st.erased_nodes[u]
       THEN IF s1.ua[a] = <<>>
            THEN IF s1.vl = ww1 THEN [s1 EXCEPT !.erased = TRUE]
                 ELSE [s1 EXCEPT !.vl = s1.father[s1.vl]]
            ELSE left_tree_loop(a, ww1, s1)
       ELSE IF ~s1.left[u] /\ ~s1.right[u]
       THEN [s1 EXCEPT !.left[u] = TRUE, !.father[u] = s1.vl, !.vl = u]
       ELSE IF u = s1.barrier \/ u = s1.vr THEN s1
       ELSE [s1 EXCEPT !.left[u] = TRUE, !.vr = s1.father[s1.vr], !.vl = u, !.dcv = u]

\* lines 1433-1521: the left tree grows or backtracks
left_tree(ww1, st) ==
    IF st.ua[st.vl] = <<>>
    THEN IF st.father[st.vl] = -1 THEN [st EXCEPT !.blossomFound = TRUE]
         ELSE [st EXCEPT !.vl = st.father[st.vl]]
    ELSE left_tree_loop(st.vl, ww1, st)

RECURSIVE right_tree_loop(_, _, _)
\* lines 1551-1606: the inner loop of the right tree; a is the vertex whose
\* predecessors list the pointer ancestors refers to
right_tree_loop(a, ww2, st) ==
    LET u == st.pred[a][Len(st.pred[a])]
        s1 == [st EXCEPT !.pred[a] = pop_back_rest(st.pred[a])]
    IN IF st.erased_nodes[u]
       THEN IF s1.pred[a] = <<>>
            THEN IF s1.vr = ww2 THEN [s1 EXCEPT !.erased = TRUE]
                 ELSE [s1 EXCEPT !.erased_nodes[s1.vr] = TRUE, !.vr = s1.father[s1.vr]]
            ELSE right_tree_loop(a, ww2, s1)
       ELSE IF ~s1.left[u] /\ ~s1.right[u]
       THEN [s1 EXCEPT !.right[u] = TRUE, !.father[u] = s1.vr, !.vr = u]
       ELSE IF u = s1.vl THEN [s1 EXCEPT !.dcv = u]
       ELSE s1

\* lines 1523-1607: the right tree grows, backtracks or steals from the left
\* tree; with dcv = -1 the steal writes left[-1] and right[-1]
right_tree(ww2, st) ==
    IF st.pred[st.vr] = <<>>
    THEN IF st.vr = st.barrier
         THEN IF st.dcv = -1 THEN [st EXCEPT !.undefined = TRUE]
              ELSE [st EXCEPT !.vr = st.dcv, !.barrier = st.dcv,
                              !.left[st.dcv] = FALSE, !.right[st.dcv] = TRUE,
                              !.vl = st.father[st.vl]]
         ELSE [st EXCEPT !.vr = st.father[st.vr]]
    ELSE right_tree_loop(st.vr, ww2, st)

\* vertex numbers
InRange(n, v) == v \in 0..(n - 1)

MaxBN == 3

\* the even and odd level of a vertex, as the search assigns them
LevelPairs == {<<0, -1>>, <<-1, 1>>, <<2, -1>>}

\* predecessor lists of at most one vertex other than the vertex itself
PredecessorLists(n) ==
    { p \in [0..(n - 1) -> {<<>>} \cup { <<a>> : a \in 0..(n - 1) }] :
        \A v \in 0..(n - 1) : p[v] # <<v>> }

InitB ==
    /\ graph = [n |-> MaxBN, edges |-> <<>>, directed |-> FALSE]
    /\ types = NULL /\ weights = NULL /\ eps = 0
    /\ matching = <<>> /\ matching_size = Unwritten /\ matching_weight = Unwritten
    /\ pc = "call" /\ retval = "none" /\ result = FALSE
    /\ IdleW /\ IdleD
    /\ labels = <<>> /\ q = <<>> /\ num_matched = 0 /\ smaller_set = FALSE
    /\ label_changed = 0
    /\ bridges = <<>> /\ anomalies = <<>> /\ level_i_queue = <<>>
    /\ next_level_i_queue = <<>> /\ cur_i = -1 /\ has_vertices = FALSE
    /\ bloss_aug_calls = <<>>
    /\ \E lv \in [0..(MaxBN - 1) -> LevelPairs] :
          /\ even_level = [v \in 0..(MaxBN - 1) |-> lv[v][1]]
          /\ odd_level = [v \in 0..(MaxBN - 1) |-> lv[v][2]]
    /\ predecessors \in PredecessorLists(MaxBN)
    /\ unused_ancestors = predecessors
    /\ match \in { [v \in 0..(MaxBN - 1) |-> -1],
                    [v \in 0..(MaxBN - 1) |-> IF v = 0 THEN 1 ELSE IF v = 1 THEN 0 ELSE -1] }
    /\ erased_nodes \in { e \in [0..(MaxBN - 1) -> BOOLEAN] :
                             Cardinality({ v \in 0..(MaxBN - 1) : e[v] }) <= 1 }
    /\ blossom \in { [v \in 0..(MaxBN - 1) |-> -1], [v \in 0..(MaxBN - 1) |-> 0] }
    /\ w1 \in 0..(MaxBN - 1) /\ w2 \in 0..(MaxBN - 1) /\ w1 # w2
    /\ vl = -1 /\ vr = -1 /\ dcv = -1 /\ barrier = -1
    /\ left = <<>> /\ right = <<>> /\ father = <<>>
    /\ pathFound = FALSE /\ blossomFound = FALSE /\ erased = FALSE

\* lines 1400-1418: the locals; no test whether w1 and w2 lie in the same
\* blossom is made (line 1387 is a comment)
BInit ==
    /\ pc = "call"
    /\ vl' = w1 /\ vr' = w2
    /\ blossomFound' = FALSE /\ erased' = FALSE
    /\ dcv' = -1 /\ barrier' = w2
    /\ left' = [v \in 0..(igraph_vcount(graph) - 1) |-> FALSE]
    /\ right' = [v \in 0..(igraph_vcount(graph) - 1) |-> FALSE]
    /\ father' = [v \in 0..(igraph_vcount(graph) - 1) |-> -1]
    /\ pathFound' = (even_level[w1] = 0 /\ even_level[w2] = 0)
    /\ pc' = "b_loop"
    /\ UNCHANGED <<args, outs, retval, result, uw_locals, w_locals, g_locals, d_locals,
                   w1, w2, erased_nodes, blossom, unused_ancestors>>

\* the loop condition at line 1420
BlossLoopGoesOn == ~pathFound /\ ~blossomFound /\ ~erased

\* the end of one iteration: the locals and the caller's vectors take the
\* values of st, and lines 1609-1611 test whether a path was found; an
\* access outside a vector ends in a crash or goes on unpredictably
BlossIterationEnd(st) ==
    IF st.undefined \/ ~InRange(igraph_vcount(graph), st.vl)
                    \/ ~InRange(igraph_vcount(graph), st.vr)
    THEN /\ pc' \in {"crashed", "b_wild"}
         /\ UNCHANGED <<vl, vr, dcv, barrier, left, right, father, pathFound,
                        blossomFound, erased, erased_nodes, unused_ancestors,
                        predecessors>>
    ELSE /\ vl' = st.vl /\ vr' = st.vr /\ dcv' = st.dcv /\ barrier' = st.barrier
         /\ left' = st.left /\ right' = st.right /\ father' = st.father
         /\ blossomFound' = st.blossomFound /\ erased' = st.erased
         /\ erased_nodes' = st.erased_nodes
         /\ unused_ancestors' = st.ua /\ predecessors' = st.pred
         /\ pathFound' = (match[st.vl] = -1 /\ match[st.vr] = -1)
         /\ pc' = "b_loop"

\* one iteration of the loop at line 1420 in which the left tree grows
BLeft ==
    /\ pc = "b_loop" /\ BlossLoopGoesOn
    /\ InRange(igraph_vcount(graph), vl) /\ InRange(igraph_vcount(graph), vr)
    /\ vertex_level(even_level, odd_level, vl) >= vertex_level(even_level, odd_level, vr)
    /\ BlossIterationEnd(left_tree(w1, BlossState))
    /\ UNCHANGED <<args, outs, retval, result, uw_locals, w_locals, d_locals,
                   even_level, odd_level, bridges, anomalies, level_i_queue,
                   next_level_i_queue, cur_i, has_vertices, bloss_aug_calls,
                   w1, w2, blossom>>

\* one iteration of the loop at line 1420 in which the right tree grows
BRight ==
    /\ pc = "b_loop" /\ BlossLoopGoesOn
    /\ InRange(igraph_vcount(graph), vl) /\ InRange(igraph_vcount(graph), vr)
    /\ vertex_level(even_level, odd_level, vl) < vertex_level(even_level, odd_level, vr)
    /\ BlossIterationEnd(right_tree(w2, BlossState))
    /\ UNCHANGED <<args, outs, retval, result, uw_locals, w_locals, d_locals,
                   even_level, odd_level, bridges, anomalies, level_i_queue,
                   next_level_i_queue, cur_i, has_vertices, bloss_aug_calls,
                   w1, w2, blossom>>

\* line 1630: the function returns; nothing is handed back to the caller
BReturn ==
    /\ pc = "b_loop" /\ ~BlossLoopGoesOn
    /\ retval' = "IGRAPH_SUCCESS"
    /\ pc' = "done"
    /\ UNCHANGED <<args, outs, result, uw_locals, w_locals, g_locals, d_locals, b_locals>>

NextB == BInit \/ BLeft \/ BRight \/ BReturn

SpecB == InitB /\ [][NextB]_vars

(***************************************************************************)
(* What a matching is, stated on the graph.                                *)
(***************************************************************************)
\* some edge joins u and v, in either direction
Joined(g, u, v) ==
    \E x \in 1..Len(g.edges) : g.edges[x] = <<u, v>> \/ g.edges[x] = <<v, u>>

ValidMatching(g, tp, mt) ==
    /\ DOMAIN mt = 0..(g.n - 1)
    /\ \A v \in 0..(g.n - 1) : mt[v] \in (-1)..(g.n - 1)
    /\ \A v \in 0..(g.n - 1) : mt[v] # -1 =>
            /\ mt[mt[v]] = v
            /\ Joined(g, v, mt[v])
            /\ (~tp.null => tp.v[v] # tp.v[mt[v]])

\* two different unmatched vertices joined by an edge (of different type
\* when types are supplied)
Extendable(g, tp, mt) ==
    \E u, v \in 0..(g.n - 1) :
        /\ u # v /\ mt[u] = -1 /\ mt[v] = -1
        /\ Joined(g, u, v)
        /\ (tp.null \/ tp.v[u] # tp.v[v])

\* C4: igraph_is_matching never fails and returns true exactly for the vectors
\* of length n with entries in [-1, n) that are mutual, edge-backed in at
\* least one direction and, with types, pair vertices of different type.
C4_IsMatchingExact ==
    pc = "is_matching_done" =>
        /\ retval = "IGRAPH_SUCCESS"
        /\ result = ValidMatching(graph, types, matching)

\* an accepted pair whose only edge runs against the first query's direction
C4_Witness ==
    /\ pc = "is_matching_done" /\ result = TRUE /\ ~types.null
    /\ \E v \in 0..(graph.n - 1) :
          matching[v] # -1 /\ ~igraph_are_connected(graph, v, matching[v])

\* C5: igraph_is_maximal_matching returns true exactly when the vector is a
\* matching and no two unmatched vertices are adjacent.
C5_IsMaximalExact ==
    pc = "is_maximal_done" =>
        /\ retval = "IGRAPH_SUCCESS"
        /\ result = (ValidMatching(graph, types, matching)
                       /\ ~Extendable(graph, types, matching))

(***************************************************************************)
(* Matchings of a graph, by enumeration.                                   *)
(***************************************************************************)
\* every edge joins vertices of different type
Bipartite(g, tp) ==
    \A x \in 1..Len(g.edges) : tp[g.edges[x][1]] # tp[g.edges[x][2]]

\* sets of edge ids that are pairwise vertex-disjoint and hold no self-loop
EdgeMatchings(g) ==
    { S \in SUBSET (1..Len(g.edges)) :
        /\ \A x \in S : g.edges[x][1] # g.edges[x][2]
        /\ \A x, y \in S : x # y =>
              {g.edges[x][1], g.edges[x][2]} \cap {g.edges[y][1], g.edges[y][2]} = {} }

MaxMatchingSize(g) ==
    CHOOSE k \in 0..Len(g.edges) :
        /\ \E S \in EdgeMatchings(g) : Cardinality(S) = k
        /\ \A S \in EdgeMatchings(g) : Cardinality(S) <= k

\* size of a smallest set of vertices that touches every edge
MinVertexCover(g) ==
    CHOOSE k \in 0..g.n :
        LET covers == { C \in SUBSET (0..(g.n - 1)) :
                          \A x \in 1..Len(g.edges) :
                              g.edges[x][1] \in C \/ g.edges[x][2] \in C }
        IN /\ \E C \in covers : Cardinality(C) = k
           /\ \A C \in covers : Cardinality(C) >= k

\* number of matched pairs of a matching vector
MatchedPairs(mt) == Cardinality({ v \in DOMAIN mt : mt[v] # -1 /\ mt[v] > v })

\* C1: on a bipartite graph the unweighted matcher reports the size of a
\* largest matching, which is the size of a smallest vertex cover.
C1_UnweightedMaximum ==
    (pc = "done" /\ Bipartite(graph, types.v)) =>
        /\ retval = "IGRAPH_SUCCESS"
        /\ matching_size.v = MaxMatchingSize(graph)
        /\ matching_size.v = MinVertexCover(graph)
        /\ MatchedPairs(matching) = MaxMatchingSize(graph)

\* the greedy pass alone was not maximum: pushes had to re-match vertices
C1_Witness ==
    /\ pc = "done" /\ Bipartite(graph, types.v) /\ retval = "IGRAPH_SUCCESS"
    /\ matching_size.v = 2
    /\ unweighted_greedy(graph, types.v).num_matched = 1

\* C6: on a bipartite graph the returned vector is a matching of the graph
\* for the types and the reported size counts its pairs.
C6_UnweightedIsMatching ==
    (pc = "done" /\ Bipartite(graph, types.v)) =>
        /\ igraph_is_matching(graph, types, matching)
        /\ ValidMatching(graph, types, matching)
        /\ matching_size.v = MatchedPairs(matching)

\* a returned matching in which a push moved a vertex to another partner
C6_Witness ==
    /\ pc = "done" /\ Bipartite(graph, types.v) /\ retval = "IGRAPH_SUCCESS"
    /\ \E v \in 0..(graph.n - 1) :
          /\ matching[v] # -1
          /\ unweighted_greedy(graph, types.v).match[v] \notin {-1, matching[v]}

\* C9: an edge between two vertices of the same type makes the unweighted
\* matcher return an invalid-input error.
C9_UnweightedRejectsNonBipartite ==
    (pc = "done" /\ ~Bipartite(graph, types.v)) => retval = "IGRAPH_EINVAL"

(***************************************************************************)
(* Weights of matchings, by enumeration.                                   *)
(***************************************************************************)
RECURSIVE SetSum(_, _)
\* the sum of f over the finite set S
SetSum(S, f) ==
    IF S = {} THEN 0
    ELSE LET x == CHOOSE y \in S : TRUE IN f[x] + SetSum(S \ {x}, f)

\* the largest total weight of a set of vertex-disjoint edges
MaxMatchingWeight(g, wt) ==
    LET sums == { SetSum(S, [x \in S |-> wt[x - 1]]) : S \in EdgeMatchings(g) }
    IN CHOOSE k \in sums : \A l \in sums : l <= k

\* the ids (1-based) of the edges that join u and v
JoiningEdges(g, u, v) ==
    { x \in 1..Len(g.edges) : g.edges[x] = <<u, v>> \/ g.edges[x] = <<v, u>> }

\* the total weights a matching vector can stand for: one joining edge is
\* taken for every matched pair
VectorWeights(g, wt, mt) ==
    LET P == { v \in DOMAIN mt : mt[v] # -1 /\ mt[v] > v }
        choices == { c \in [P -> 1..Len(g.edges)] :
                        \A v \in P : c[v] \in JoiningEdges(g, v, mt[v]) }
    IN { SetSum(P, [v \in P |-> wt[c[v] - 1]]) : c \in choices }

\* C2: on a bipartite graph with non-negative integer weights and eps = 0 the
\* weighted matcher succeeds and the returned vector is a matching whose
\* total weight is the largest total weight of any matching of the graph.
C2_WeightedMaximum ==
    (pc = "done" /\ ~weights.null /\ eps = 0 /\ Bipartite(graph, types.v)) =>
        /\ retval = "IGRAPH_SUCCESS"
        /\ ValidMatching(graph, types, matching)
        /\ MaxMatchingWeight(graph, weights.v) \in VectorWeights(graph, weights.v, matching)

\* a maximum-weight matching that is not of maximum cardinality on its real
\* edges alone and that needed a change of the labels
C2_Witness ==
    /\ pc = "done" /\ ~weights.null /\ eps = 0 /\ Bipartite(graph, types.v)
    /\ retval = "IGRAPH_SUCCESS"
    /\ dual < initial_labels(graph, types.v, weights.v, 0,
                 [err |-> FALSE, labels |-> [v \in 0..(graph.n - 1) |-> 0], dual |-> 0]).dual
    /\ MatchedPairs(matching) < MaxMatchingSize(graph)
    /\ MaxMatchingWeight(graph, weights.v) >= 2

\* C7: on a bipartite graph the weighted matcher's vector satisfies
\* igraph_is_matching and the reported weight is the sum, over the matched
\* pairs, of the weight of the edge joining the pair.
C7_WeightedIsMatching ==
    (pc = "done" /\ ~weights.null /\ Bipartite(graph, types.v)) =>
        /\ igraph_is_matching(graph, types, matching)
        /\ matching_weight.v \in VectorWeights(graph, weights.v, matching)

\* C10: an edge between two vertices of the same type makes the weighted
\* matcher return an invalid-input error.
C10_WeightedRejectsNonBipartite ==
    (pc = "done" /\ ~weights.null /\ ~Bipartite(graph, types.v)) =>
        retval = "IGRAPH_EINVAL"

\* C3: igraph_maximum_matching reports the size of a largest matching of
\* the graph.
C3_GeneralMaximum ==
    (pc = "done" /\ types.null /\ weights.null /\ retval = "IGRAPH_SUCCESS") =>
        matching_size.v = MaxMatchingSize(graph)

\* C8: after a successful igraph_maximum_matching the caller's vector has
\* length n, is a matching of the graph, and the reported size counts its
\* pairs.
C8_GeneralVectorWritten ==
    (pc = "done" /\ types.null /\ weights.null /\ retval = "IGRAPH_SUCCESS") =>
        /\ igraph_vector_size(matching) = igraph_vcount(graph)
        /\ igraph_is_matching(graph, NULL, matching)
        /\ matching_size.v = MatchedPairs(matching)

\* C11: a weights vector given to igraph_maximum_matching makes the call
\* signal an unsupported-feature error; it never succeeds having ignored the
\* weights.
C11_GeneralRejectsWeights ==
    (pc = "done" /\ types.null /\ ~weights.null) => retval = "IGRAPH_UNIMPLEMENTED"

\* C12: on a bipartite graph with valid types the unweighted matcher
\* terminates: the main loop empties the FIFO within MaxSteps iterations,
\* and the call returns what the loop run to its end computes.
C12_UnweightedTerminates ==
    (weights.null /\ Bipartite(graph, types.v)) =>
        LET r == unweighted_matching(graph, types.v) IN
        /\ ~r.err /\ ~r.hang
        /\ pc = "done" => (retval = "IGRAPH_SUCCESS" /\ q = <<>> /\ matching = r.match)

\* the main loop is about to run a global relabeling that rewrites labels
C12_Witness ==
    /\ pc = "uw_loop" /\ weights.null /\ Bipartite(graph, types.v)
    /\ q # <<>>
    /\ label_changed >= igraph_vcount(graph) \div 2
    /\ labels # unweighted_relabel(graph, types.v, match, smaller_set)

\* the state of the weighted main loop
LoopState ==
    [match |-> match, msize |-> msize, labels |-> labels, slack |-> slack,
     dual |-> dual, tight_phantom_edges |-> tight_phantom_edges]

\* C13: on a bipartite graph with non-negative integer weights and eps = 0
\* the weighted main loop ends within MaxSteps phases with the matching as
\* large as the smaller side, and every phase changes the matching, the
\* labels or the tight phantom edges.
C13_WeightedTerminates ==
    (~weights.null /\ eps = 0 /\ Bipartite(graph, types.v)) =>
        /\ pc # "hang"
        /\ pc = "call" => ~weighted_matching(graph, types.v, weights.v, 0).hang
        /\ (pc = "w_loop" /\ msize < smaller_set_size(graph, types.v)) =>
              LET nx == weighted_phase(graph, types.v, 0, LoopState) IN
              <<nx.match, nx.labels, nx.tight_phantom_edges>>
                    # <<match, labels, tight_phantom_edges>>
        /\ pc = "done" =>
              /\ retval = "IGRAPH_SUCCESS"
              /\ matching = weighted_matching(graph, types.v, weights.v, 0).match

\* a phase that finds no path and moves no label: only the tight phantom
\* edges change
C13_Witness ==
    /\ ~weights.null /\ eps = 0 /\ Bipartite(graph, types.v)
    /\ pc = "w_loop" /\ msize < smaller_set_size(graph, types.v)
    /\ Len(graph.edges) > 0
    /\ LET nx == weighted_phase(graph, types.v, 0, LoopState) IN
       /\ nx.match = match /\ nx.labels = labels
       /\ nx.tight_phantom_edges # tight_phantom_edges

\* C14: a vector accepted by igraph_is_matching pairs no vertex with
\* itself.
C14_NoSelfLoopAccepted ==
    (pc = "is_matching_done" /\ result = TRUE) =>
        \A v \in DOMAIN matching : matching[v] # v

\* C15: the final cleanup of the weighted matcher removes a matched pair
\* exactly when no edge of the graph joins it, and the reported size counts
\* the pairs that are left.
C15_CleanupExact ==
    [][(pc = "w_loop" /\ pc' = "done" /\ Bipartite(graph, types.v)) =>
          /\ \A u \in 0..(graph.n - 1) :
                match[u] # -1 => ((matching'[u] = -1) <=> ~Joined(graph, u, match[u]))
          /\ matching_size'.v = MatchedPairs(matching')]_vars

\* C16: a call without weights that passes no matching_size but asks for
\* the weight returns success and reports the number of pairs of the
\* returned matching as the weight.
C16_SizeOptional ==
    (weights.null /\ matching_size.null /\ ~matching_weight.null
       /\ igraph_vector_size(types.v) >= igraph_vcount(graph)
       /\ Bipartite(graph, types.v) /\ pc \in {"done", "crashed"}) =>
        /\ pc = "done" /\ retval = "IGRAPH_SUCCESS"
        /\ matching_weight.v = MatchedPairs(matching)

\* a types vector shorter than the vertex count, or supplied weights shorter
\* than the edge count
ShortVectors ==
    \/ igraph_vector_size(types.v) < igraph_vcount(graph)
    \/ (~weights.null /\ igraph_vector_size(weights.v) < igraph_ecount(graph))

\* C17: with a types vector shorter than the vertex count, or supplied
\* weights shorter than the edge count, the sanity checks answer
\* IGRAPH_EINVAL, the call returns it, and matching, matching_size and
\* matching_weight are never written.
C17_ShortVectorsRejected ==
    ShortVectors =>
        /\ sanity_checks(graph, types.v, weights) = "IGRAPH_EINVAL"
        /\ pc \in {"call", "done"}
        /\ pc = "done" => retval = "IGRAPH_EINVAL"
        /\ matching = <<>>
        /\ matching_size \in {Unwritten, NULL}
        /\ matching_weight \in {Unwritten, NULL}

\* a call with types of full length and weights that are too short has returned
C17_Witness ==
    /\ pc = "done" /\ retval = "IGRAPH_EINVAL"
    /\ igraph_vector_size(types.v) = igraph_vcount(graph)
    /\ ~weights.null /\ igraph_vector_size(weights.v) < igraph_ecount(graph)
    /\ ~matching_size.null /\ ~matching_weight.null

\* C18: a negative eps is not an error: the weighted call runs as with
\* eps = 0, succeeds on a bipartite graph, and returns the matching, size
\* and weight that eps = 0 gives.
C18_NegativeEpsAsZero ==
    (~weights.null /\ eps < 0) =>
        LET r0 == weighted_matching(graph, types.v, weights.v, 0) IN
        /\ pc = "call" =>
              weighted_matching(graph, types.v, weights.v, clamped_eps) = r0
        /\ (pc = "done" /\ Bipartite(graph, types.v)) => retval = "IGRAPH_SUCCESS"
        /\ (pc = "done" /\ retval = "IGRAPH_SUCCESS") =>
              /\ ~r0.err /\ ~r0.hang
              /\ matching = r0.match
              /\ matching_size.v = r0.msize
              /\ matching_weight.v = r0.weight
        /\ (pc = "done" /\ retval # "IGRAPH_SUCCESS") => r0.err

\* a call with a negative eps has returned a matching of positive weight
C18_Witness ==
    /\ pc = "done" /\ ~weights.null /\ eps < 0
    /\ retval = "IGRAPH_SUCCESS"
    /\ MatchedPairs(matching) >= 1
    /\ matching_weight.v >= 1

\* the number of vertices of type TRUE
TrueTyped(g, tp) == Cardinality({ v \in 0..(igraph_vcount(g) - 1) : tp[v] })

\* C19: after the greedy pass smaller_set is TRUE exactly when the number of
\* vertices of type TRUE is at most floor(n / 2).
C19_SmallerSetByCount ==
    (pc = "uw_relabel" /\ weights.null) =>
        (smaller_set <=> (TrueTyped(graph, types.v) <= igraph_vcount(graph) \div 2))

\* C20: at the start of every iteration of the push-relabel main loop, on a
\* bipartite graph with valid types, every vertex in the FIFO is unmatched
\* and of type smaller_set, no vertex is in the FIFO twice, match is
\* symmetric with every pair joined by an edge, and num_matched is the
\* number of matched pairs.
C20_MainLoopInvariant ==
    (pc = "uw_loop" /\ weights.null /\ Bipartite(graph, types.v)) =>
        /\ \A k \in 1..Len(q) : match[q[k]] = -1 /\ types.v[q[k]] = smaller_set
        /\ \A k1, k2 \in 1..Len(q) : q[k1] = q[k2] => k1 = k2
        /\ \A v \in 0..(graph.n - 1) :
              match[v] # -1 => (match[match[v]] = v /\ Joined(graph, v, match[v]))
        /\ num_matched = MatchedPairs(match)

\* the main loop is about to run an iteration after a double push has sent
\* a vertex that lost its partner back to the FIFO
C20_Witness ==
    /\ pc = "uw_loop" /\ weights.null /\ Bipartite(graph, types.v)
    /\ Len(q) >= 1
    /\ num_matched >= 1
    /\ match # unweighted_greedy(graph, types.v).match

\* C21: in a BFS phase of the weighted matcher, once
\* alternating_path_endpoint is set, no further vertex is popped from the
\* queue, no further parent entry is written and the endpoint is not
\* replaced.
C21_BfsStopsAtEndpoint ==
    [][(pc = "w_bfs" /\ alternating_path_endpoint # -1 /\ Bipartite(graph, types.v)) =>
          /\ q' = q
          /\ parent' = parent
          /\ alternating_path_endpoint' = alternating_path_endpoint]_vars

\* the smallest element of a non-empty set of numbers
SetMin(S) == CHOOSE x \in S : \A y \in S : x <= y

\* the slack of the pair (u, v) in the completed graph: the slack of a real
\* edge joining them, the sum of their labels when no real edge does
PairSlack(u, v) ==
    IF JoiningEdges(graph, u, v) # {}
    THEN SetMin({ slack[x - 1] : x \in JoiningEdges(graph, u, v) })
    ELSE labels[u] + labels[v]

\* the slacks of the pairs of a reached vertex of the smaller side and an
\* unreached vertex of the larger side
FrontierSlacks ==
    LET ss == smaller_set_type(graph, types.v)
        A == { u \in 0..(graph.n - 1) : types.v[u] = ss /\ parent[u] >= 0 }
        B == { v \in 0..(graph.n - 1) : types.v[v] # ss /\ parent[v] < 0 }
    IN { PairSlack(u, v) : u \in A, v \in B }

\* C22: in a phase that finds no augmenting path, min_slack is the smallest
\* slack in the completed graph over the pairs of a reached vertex of the
\* smaller side and an unreached vertex of the larger side; reached vertices
\* of the larger side do not contribute.
C22_MinSlackOverFrontier ==
    (pc = "w_bfs" /\ q = <<>> /\ alternating_path_endpoint = -1
       /\ Bipartite(graph, types.v)) =>
        /\ FrontierSlacks # {}
        /\ weighted_min_slack(graph, types.v, parent, slack, labels, vec1)
              = SetMin(FrontierSlacks)

\* a phase without augmenting path that reached a vertex of the larger side
\* and whose min_slack is positive and is the slack of a real edge
C22_Witness ==
    /\ pc = "w_bfs" /\ q = <<>> /\ alternating_path_endpoint = -1
    /\ Bipartite(graph, types.v)
    /\ vec2 # <<>>
    /\ LET ms == weighted_min_slack(graph, types.v, parent, slack, labels, vec1) IN
       /\ ms > 0
       /\ ms < min_label(larger_set_ids(graph, types.v), labels, 0, IGRAPH_INFINITY)
                + min_reached_label(vec1, parent, labels, 0, IGRAPH_INFINITY)

\* C23: at the start of every phase of the weighted matcher, on a bipartite
\* graph with non-negative integer weights and eps = 0, the stored slack of
\* every real edge (u, v) is label(u) + label(v) - weight and is not negative.
C23_SlackIsLabelSum ==
    (pc = "w_loop" /\ ~weights.null /\ eps = 0 /\ Bipartite(graph, types.v)) =>
        \A e \in 0..(igraph_ecount(graph) - 1) :
            LET ed == igraph_edge(graph, e) IN
            /\ slack[e] = labels[ed[1]] + labels[ed[2]] - weights.v[e]
            /\ slack[e] >= 0

\* a phase starts after a label update has raised a label of the larger
\* side and left a real edge with positive slack
C23_Witness ==
    /\ pc = "w_loop" /\ ~weights.null /\ eps = 0 /\ Bipartite(graph, types.v)
    /\ msize < smaller_set_size(graph, types.v)
    /\ \E v \in 0..(graph.n - 1) :
          types.v[v] # smaller_set_type(graph, types.v) /\ labels[v] > 0
    /\ \E e \in 0..(igraph_ecount(graph) - 1) : slack[e] > 0

\* a tight edge of the completed graph joins u and v: a real edge with
\* slack at most eps, or no real edge and a label sum of at most eps
TightPair(u, v) ==
    \/ \E x \in JoiningEdges(graph, u, v) : slack[x - 1] <= clamped_eps
    \/ (JoiningEdges(graph, u, v) = {} /\ labels[u] + labels[v] <= clamped_eps)

\* C24: at the start of every phase of the weighted matcher every matched
\* pair is joined by a tight edge, real or phantom.
C24_MatchedPairsTight ==
    (pc = "w_loop" /\ ~weights.null /\ Bipartite(graph, types.v)) =>
        \A u \in 0..(graph.n - 1) : match[u] # -1 => TightPair(u, match[u])

\* a phase starts with a pair matched along a phantom edge and a pair
\* matched along a real edge, after a label update
C24_Witness ==
    /\ pc = "w_loop" /\ ~weights.null /\ Bipartite(graph, types.v)
    /\ \E u \in 0..(graph.n - 1) :
          match[u] # -1 /\ JoiningEdges(graph, u, match[u]) = {}
    /\ \E u \in 0..(graph.n - 1) :
          match[u] # -1 /\ JoiningEdges(graph, u, match[u]) # {}
    /\ \E v \in 0..(graph.n - 1) : labels[v] > 0 /\ types.v[v] # smaller_set_type(graph, types.v)

\* C25: in the weighted matcher with integer weights and eps = 0, dual is
\* the sum of all vertex labels at the start of every phase, and it does not
\* increase from the start of one phase to the start of the next.
C25_DualIsLabelSum ==
    [][(pc' = "w_loop" /\ ~weights.null /\ eps = 0 /\ Bipartite(graph, types.v)) =>
          /\ dual' = SetSum(0..(graph.n - 1), labels')
          /\ (pc = "w_bfs" => dual' <= dual)]_vars

\* a phase starts after label updates have lowered dual below its first value
C25_Witness ==
    /\ pc = "w_loop" /\ ~weights.null /\ eps = 0 /\ Bipartite(graph, types.v)
    /\ msize < smaller_set_size(graph, types.v)
    /\ vec2 # <<>>
    /\ dual > 0
    /\ dual < initial_labels(graph, types.v, weights.v, 0,
                  [err |-> FALSE, labels |-> [v \in 0..(graph.n - 1) |-> 0],
                   dual |-> 0]).dual

\* the pairs recorded in bridges(j)
BridgePairs(j) ==
    { <<bridges[j][2 * k - 1], bridges[j][2 * k]>> : k \in 1..(Len(bridges[j]) \div 2) }

\* C26: in a phase of the general-graph search every bridge recorded in
\* bridges(i) has been handed to bloss_aug when the search moves on from
\* level i.
C26_BridgesProcessed ==
    (pc \in {"g_level", "g_outer"} /\ cur_i >= 0) =>
        \A j \in 0..cur_i :
            \A b \in BridgePairs(j) :
                \E c \in 1..Len(bloss_aug_calls) : bloss_aug_calls[c] = b

RECURSIVE Closure(_, _)
\* the elements joined to an element of S by a chain of the listed pairs
Closure(S, pairs) ==
    LET T == S \cup { p[2] : p \in { r \in pairs : r[1] \in S } }
               \cup { p[1] : p \in { r \in pairs : r[2] \in S } }
    IN IF T = S THEN S ELSE Closure(T, pairs)

\* x and y are connected by the unite calls made so far
Connected(x, y) ==
    y \in Closure({x}, { united[k] : k \in 1..Len(united) })

\* C28: after init(T, n) and any sequence of unite calls, for all x and y in
\* [0, n) find(x) ends, stays inside nodes 0..n-1, returns an element of
\* [0, n), and find(x) = find(y) exactly when x and y are connected by the
\* unite calls made so far.
C28_FindIsConnectivity ==
    (pc = "d_idle") =>
        \A x, y \in 0..(element_count - 1) :
            LET fx == disjoint_set_find(nodes, element_count, x)
                fy == disjoint_set_find(nodes, element_count, y)
            IN /\ fx.out = "ok"
               /\ fx.x \in 0..(element_count - 1)
               /\ fy.out = "ok" => ((fx.x = fy.x) <=> Connected(x, y))

\* the root of the tree that holds node v
RootOf(v) == find_root(nodes, element_count, v, element_count).root

\* every call of unite made so far addressed nodes inside the array
UnitedInsideArray ==
    \A k \in 1..Len(united) :
        node_at(united[k][1]) < element_count /\ node_at(united[k][2]) < element_count

\* C29: after any sequence of unite calls the size stored at every root is
\* the number of elements of its set, and no node is its own parent.
C29_UnionBySize ==
    (pc = "d_idle" /\ UnitedInsideArray) =>
        \A r \in 0..(element_count - 1) :
            /\ nodes[r].parent # Ref(r)
            /\ nodes[r].parent.null =>
                  nodes[r].size =
                     Cardinality({ v \in 0..(element_count - 1) : RootOf(v) = r })

RECURSIVE ChainOf(_, _)
\* the nodes on the parent chain from node v to its root, the root excluded
ChainOf(v, fuel) ==
    IF nodes[v].parent.null \/ fuel = 0 THEN {}
    ELSE {v} \cup ChainOf(nodes[v].parent.v, fuel - 1)

\* C30: a find(T, x) that returns r has given every node on the parent
\* chain from x to r the parent r, has left r without parent, and has
\* changed no other node.
C30_FindCompressesOnly ==
    [][(pc = "d_idle" /\ pc' = "d_idle" /\ last_call'.op = "find"
          /\ UnitedInsideArray /\ node_at(last_call'.x) < element_count) =>
          LET x == last_call'.x
              r == find_result'
              chain == ChainOf(x, element_count)
          IN /\ r = RootOf(x)
             /\ nodes'[r].parent.null
             /\ \A v \in chain : nodes'[v].parent = Ref(r)
             /\ \A v \in 0..(element_count - 1) :
                   /\ v \notin chain => nodes'[v].parent = nodes[v].parent
                   /\ nodes'[v].size = nodes[v].size /\ nodes'[v].x = nodes[v].x]_vars

\* C27: bloss_aug called with w1 and w2 in the same blossom does no work: no
\* step of the call reports a path or a new blossom, and none changes the
\* unused_ancestors or predecessors lists, the erased marks or, once they are
\* initialised, the left and right marks and the father pointers; the call
\* then returns.
SameBlossom == blossom[w1] # -1 /\ blossom[w1] = blossom[w2]

C27_SameBlossomNoWork ==
    [][(SameBlossom /\ pc \in {"call", "b_loop"}) =>
          /\ pc' \in {"b_loop", "done"}
          /\ ~pathFound' /\ ~blossomFound'
          /\ unused_ancestors' = unused_ancestors
          /\ predecessors' = predecessors
          /\ erased_nodes' = erased_nodes
          /\ pc = "b_loop" => (left' = left /\ right' = right /\ father' = father)]_vars
====
